---- MODULE Spec2Model ----
(***************************************************************************)
(* A model of the chat agent of agent.py (ChatAgent.run,                   *)
(* ChatAgent._handle_tool_call, ChatAgent._execute_tool,                   *)
(* ChatAgent._stream_text), of the LargeLanguageModel wrapper of LLM.py    *)
(* and of the provider adapters under providers/.                          *)
(*                                                                         *)
(* The provider of an agent is any of the adapter classes of providers/;   *)
(* which of them LargeLanguageModel._load_provider can load is not part    *)
(* of the model.                                                           *)
(*                                                                         *)
(* A text is a sequence of symbols.  A symbol stands for one character     *)
(* (" ", ".", "{", ...) or for one fixed literal of the source that the    *)
(* code never looks into (a word, a key, a value, a message template).     *)
(* A Python dict is a sequence of <<key, value>> pairs in insertion order. *)
(* A generator is modelled by the position of its suspended frame: the     *)
(* variable pc names the yield statement at which run (or the              *)
(* _handle_tool_call it delegates to) is suspended, and every action is    *)
(* one resumption of the generator by its consumer, running the code up    *)
(* to the next yield or to the end of the generator.                       *)
(***************************************************************************)
EXTENDS Integers, Sequences, FiniteSets, TLC

\* Bounds of the model.
MaxTurns == 2
MaxCalls == 2
MaxEvents == 2

----------------------------------------------------------------------------
\* Sequences and texts.

Range(s) == {s[i] : i \in 1..Len(s)}

SeqsUpTo(S, n) == UNION {[1..k -> S] : k \in 0..n}

RECURSIVE Concat(_)
\* "".join(parts)
Concat(parts) ==
    IF parts = <<>> THEN <<>> ELSE Head(parts) \o Concat(Tail(parts))

Contains(text, sym) == \E i \in 1..Len(text) : text[i] = sym

\* text has the symbols of part as a contiguous run
HasInfix(text, part) ==
    \E i \in 0..(Len(text) - Len(part)) :
        \A j \in 1..Len(part) : text[i + j] = part[j]

----------------------------------------------------------------------------
\* JSON: json.loads and json.dumps over symbol texts.

Punct == {"{", "}", "[", "]", ":", ","}
NumTokens == {"1"}
Literals == NumTokens \cup {"null"}

\* isinstance(v, str) for a decoded JSON value
IsStr(v) == v \notin Literals

DictKeys(d) == [i \in 1..Len(d) |-> d[i][1]]
DictValues(d) == [i \in 1..Len(d) |-> d[i][2]]
DictHas(d, k) == \E i \in 1..Len(d) : d[i][1] = k
DictGet(d, k) == d[CHOOSE i \in 1..Len(d) : d[i][1] = k][2]

\* d[k] = v: an existing key keeps its position, a new key goes last
DictSet(d, k, v) ==
    IF DictHas(d, k)
    THEN [i \in 1..Len(d) |-> IF d[i][1] = k THEN <<k, v>> ELSE d[i]]
    ELSE Append(d, <<k, v>>)

RECURSIVE ParseMembers(_, _)
\* the members of a JSON object, s the symbols after "{" or after a ","
ParseMembers(s, acc) ==
    IF Len(s) >= 3 /\ s[1] \notin Punct \cup Literals /\ s[2] = ":"
       /\ s[3] \notin Punct
    THEN IF Len(s) = 3
         THEN [ok |-> TRUE, d |-> DictSet(acc, s[1], s[3])]
         ELSE IF s[4] = ","
              THEN ParseMembers(SubSeq(s, 5, Len(s)), DictSet(acc, s[1], s[3]))
              ELSE [ok |-> FALSE, d |-> <<>>]
    ELSE [ok |-> FALSE, d |-> <<>>]

PyDict(d) == [t |-> "dict", d |-> d, s |-> <<>>]
PyOther(s) == [t |-> "other", d |-> <<>>, s |-> s]
PyStrVal(s) == [t |-> "str", d |-> <<>>, s |-> s]
PyDecodeError == [t |-> "error", d |-> <<>>, s |-> <<>>]

\* json.loads(s): a dict, another JSON value (array, number, null), or
\* json.JSONDecodeError
JsonLoads(s) ==
    IF Len(s) >= 2 /\ s[1] = "{" /\ s[Len(s)] = "}"
    THEN IF Len(s) = 2
         THEN PyDict(<<>>)
         ELSE LET r == ParseMembers(SubSeq(s, 2, Len(s) - 1), <<>>)
              IN  IF r.ok THEN PyDict(r.d) ELSE PyDecodeError
    ELSE IF Len(s) >= 2 /\ s[1] = "[" /\ s[Len(s)] = "]"
            /\ (Len(s) = 2 \/ (Len(s) = 3 /\ s[2] \notin Punct))
         THEN PyOther(s)
         ELSE IF Len(s) = 1 /\ s[1] \in Literals
              THEN PyOther(s)
              ELSE PyDecodeError

RECURSIVE DumpMembers(_)
DumpMembers(d) ==
    IF d = <<>> THEN <<>>
    ELSE <<d[1][1], ":", d[1][2]>>
         \o (IF Len(d) > 1 THEN <<",">> ELSE <<>>)
         \o DumpMembers(Tail(d))

\* json.dumps(v, ensure_ascii=False)
JsonDumps(v) ==
    IF v.t = "dict" THEN <<"{">> \o DumpMembers(v.d) \o <<"}">>
    ELSE IF v.t = "str" THEN <<"\"">> \o v.s \o <<"\"">>
    ELSE v.s

----------------------------------------------------------------------------
\* The tools (tools/weather.py, tools/translation.py) and _execute_tool.

\* self.tools: tool name -> tool object.  _load_tools registers the tools
\* the configuration names: the two tools of tools/ and, standing for any
\* other Tool subclass, a tool "route" whose execute has two parameters
\* without a default and one with a default.
tools == {"weather", "translation", "route"}

\* inspect.signature(tool.execute): the parameters and whether each has a
\* default value
Signature(tool) ==
    CASE tool = "weather" -> <<[name |-> "city", has_default |-> FALSE]>>
      [] tool = "translation" -> <<[name |-> "prompt", has_default |-> FALSE]>>
      [] OTHER -> <<[name |-> "origin", has_default |-> FALSE],
                    [name |-> "target", has_default |-> FALSE],
                    [name |-> "unit", has_default |-> TRUE]>>

\* str.lower() on the keys of the model
Lower(k) ==
    CASE k = "CITY" -> "city"
      [] k = "City" -> "city"
      [] k = "PROMPT" -> "prompt"
      [] k = "ORIGIN" -> "origin"
      [] OTHER -> k

\* the return value of tool.execute(**kwargs)
Execute(tool, kwargs) ==
    CASE tool = "weather" ->
            <<"[TEST] Weather for", DictGet(kwargs, "city"), ": Sunny, 25C">>
      [] tool = "translation" -> <<"[FIXED] Hello from the REAL translation tool">>
      [] OTHER ->
            <<"route", DictGet(kwargs, "origin"), DictGet(kwargs, "target"),
              IF DictHas(kwargs, "unit") THEN DictGet(kwargs, "unit") ELSE "km">>

ToolOk(text) == [error |-> FALSE, v |-> text]
ToolError(text) == [error |-> TRUE, v |-> text]

required_params(tool) ==
    LET sig == Signature(tool)
        NoDefault(p) == ~p.has_default
        req == SelectSeq(sig, NoDefault)
    IN  [i \in 1..Len(req) |-> req[i].name]

missing_params(tool, tool_args) ==
    LET Absent(p) == ~DictHas(tool_args, p)
    IN  SelectSeq(required_params(tool), Absent)

\* CaseRepair, were keys compared as they are
CaseRepairExact(tool_args, missing) == tool_args

\* strategy 1: the first key equal to the missing name up to letter case
CaseRepair(tool_args, missing) ==
    LET hits == {i \in 1..Len(tool_args) : Lower(tool_args[i][1]) = Lower(missing)}
    IN  IF hits = {} THEN tool_args
        ELSE LET i == CHOOSE h \in hits : \A g \in hits : h <= g
             IN  DictSet(tool_args, missing, tool_args[i][2])

\* SingleValueRepair, were the number of required parameters not checked
SingleValueRepairAnyTool(tool, tool_args, missing, n_missing) ==
    IF n_missing = 1
    THEN LET string_values == SelectSeq(DictValues(tool_args), IsStr)
         IN  IF Len(string_values) = 1
             THEN DictSet(tool_args, missing, string_values[1])
             ELSE tool_args
    ELSE tool_args

\* strategy 2: the lone string value, with one required and one missing
\* parameter; it runs after strategy 1, on the dict strategy 1 left
SingleValueRepair(tool, tool_args, missing, n_missing) ==
    IF Len(required_params(tool)) = 1 /\ n_missing = 1
    THEN LET string_values == SelectSeq(DictValues(tool_args), IsStr)
         IN  IF Len(string_values) = 1
             THEN DictSet(tool_args, missing, string_values[1])
             ELSE tool_args
    ELSE tool_args

RECURSIVE RepairLoop(_, _, _, _)
\* for missing in missing_params: strategy 1, then strategy 2
RepairLoop(tool, tool_args, todo, n_missing) ==
    IF todo = <<>> THEN tool_args
    ELSE RepairLoop(tool,
                    SingleValueRepair(tool, CaseRepair(tool_args, Head(todo)),
                                      Head(todo), n_missing),
                    Tail(todo), n_missing)

\* filtered_args, were every argument passed on
filtered_args_all(tool, tool_args) == tool_args

\* {k: v for k, v in tool_args.items() if k in sig.parameters}
filtered_args(tool, tool_args) ==
    LET names == {Signature(tool)[i].name : i \in 1..Len(Signature(tool))}
        Known(kv) == kv[1] \in names
    IN  SelectSeq(tool_args, Known)

\* ExecuteCatch, were the except branch to return the message as a result
ExecuteCatchAsResult(tool, kwargs, raises) ==
    IF raises
    THEN ToolOk(<<"tool failed:", "exception">>)
    ELSE ToolOk(Execute(tool, kwargs))

\* try: tool.execute(**filtered_args) except Exception as e: {"error": ...}
ExecuteCatch(tool, kwargs, raises) ==
    IF raises
    THEN ToolError(<<"tool failed:", "exception">>)
    ELSE ToolOk(Execute(tool, kwargs))

\* MissingError, were it to name the first missing parameter only
MissingErrorFirst(missing) ==
    ToolError(<<"missing required parameters:", Head(missing)>>)

\* {"error": f"...: {', '.join(missing_params)}"}
MissingError(missing) == ToolError(<<"missing required parameters:">> \o missing)

\* ExecuteTool, were a name that is not registered reported as a result
ExecuteToolUnknownAsResult(tool_name, tool_args, raises) ==
    IF tool_name \notin tools
    THEN [result |-> ToolOk(<<"tool not found:", tool_name>>),
          args |-> tool_args, invoked |-> FALSE, kwargs |-> <<>>]
    ELSE LET miss0 == missing_params(tool_name, tool_args)
             repaired == RepairLoop(tool_name, tool_args, miss0, Len(miss0))
             miss1 == missing_params(tool_name, repaired)
         IN  IF miss1 # <<>>
             THEN [result |-> MissingError(miss1),
                   args |-> repaired, invoked |-> FALSE, kwargs |-> <<>>]
             ELSE [result |-> ExecuteCatch(tool_name,
                                           filtered_args(tool_name, repaired), raises),
                   args |-> repaired, invoked |-> TRUE,
                   kwargs |-> filtered_args(tool_name, repaired)]

\* _execute_tool(tool_name, tool_args); raises tells whether the tool body
\* raises when it is invoked.  The result carries the dict as the call left
\* it (the caller's dict is updated in place), whether the tool body was
\* invoked and with which keyword arguments.
ExecuteTool(tool_name, tool_args, raises) ==
    IF tool_name \notin tools
    THEN [result |-> ToolError(<<"tool not found:", tool_name>>),
          args |-> tool_args, invoked |-> FALSE, kwargs |-> <<>>]
    ELSE LET miss0 == missing_params(tool_name, tool_args)
             repaired == RepairLoop(tool_name, tool_args, miss0, Len(miss0))
             miss1 == missing_params(tool_name, repaired)
         IN  IF miss1 # <<>>
             THEN [result |-> MissingError(miss1),
                   args |-> repaired, invoked |-> FALSE, kwargs |-> <<>>]
             ELSE [result |-> ExecuteCatch(tool_name,
                                           filtered_args(tool_name, repaired), raises),
                   args |-> repaired, invoked |-> TRUE,
                   kwargs |-> filtered_args(tool_name, repaired)]

----------------------------------------------------------------------------
\* Text operations of str: strip, split, replace.

Whitespace == {" ", "\n"}

RECURSIVE LStrip(_)
LStrip(t) == IF t # <<>> /\ Head(t) \in Whitespace THEN LStrip(Tail(t)) ELSE t

RECURSIVE RStrip(_)
RStrip(t) ==
    IF t # <<>> /\ t[Len(t)] \in Whitespace
    THEN RStrip(SubSeq(t, 1, Len(t) - 1))
    ELSE t

\* t.strip()
Strip(t) == RStrip(LStrip(t))

RECURSIVE SplitAcc(_, _, _, _)
SplitAcc(t, sep, cur, acc) ==
    IF t = <<>> THEN Append(acc, cur)
    ELSE IF Head(t) \in sep
         THEN SplitAcc(Tail(t), sep, <<>>, Append(acc, cur))
         ELSE SplitAcc(Tail(t), sep, Append(cur, Head(t)), acc)

\* t.split(c) with c one of the symbols of sep, and re.split(pattern, t)
\* for a pattern matching exactly the symbols of sep
SplitOn(t, sep) == SplitAcc(t, sep, <<>>, <<>>)

RECURSIVE WordsAcc(_, _, _)
WordsAcc(t, cur, acc) ==
    IF t = <<>> THEN (IF cur = <<>> THEN acc ELSE Append(acc, cur))
    ELSE IF Head(t) \in Whitespace
         THEN WordsAcc(Tail(t), <<>>, IF cur = <<>> THEN acc ELSE Append(acc, cur))
         ELSE WordsAcc(Tail(t), Append(cur, Head(t)), acc)

\* t.split(): the maximal runs of non-whitespace symbols
SplitWords(t) == WordsAcc(t, <<>>, <<>>)

RECURSIVE ReplaceEnd(_, _)
\* t.replace(p + ' ', p + '|')
ReplaceEnd(t, p) ==
    IF t = <<>> THEN <<>>
    ELSE IF Len(t) >= 2 /\ t[1] = p /\ t[2] = " "
         THEN <<p, "|">> \o ReplaceEnd(SubSeq(t, 3, Len(t)), p)
         ELSE <<t[1]>> \o ReplaceEnd(Tail(t), p)

RECURSIVE SplitParagraphsAcc(_, _, _)
SplitParagraphsAcc(t, cur, acc) ==
    IF t = <<>> THEN Append(acc, cur)
    ELSE IF Len(t) >= 2 /\ t[1] = "\n" /\ t[2] = "\n"
         THEN SplitParagraphsAcc(SubSeq(t, 3, Len(t)), <<>>, Append(acc, cur))
         ELSE SplitParagraphsAcc(Tail(t), Append(cur, t[1]), acc)

\* t.split("\n\n")
SplitParagraphs(t) == SplitParagraphsAcc(t, <<>>, <<>>)

----------------------------------------------------------------------------
\* ChatAgent._stream_text

SentenceEnd == {".", "!", "?"}

\* the chunks one sentence contributes: its words, each but the last
\* followed by a space, then a lone space after a sentence that ends in
\* punctuation and differs from the last sentence
SentenceChunks(sentence, last) ==
    IF Strip(sentence) = <<>> THEN <<>>
    ELSE LET words == SplitWords(sentence)
         IN  [i \in 1..Len(words) |->
                 words[i] \o (IF i < Len(words) THEN <<" ">> ELSE <<>>)]
             \o (IF sentence[Len(sentence)] \in SentenceEnd /\ last # sentence
                 THEN << <<" ">> >>
                 ELSE <<>>)

\* list(self._stream_text(text)): the chunks in the order they are yielded
stream_text(text) ==
    IF text = <<>> THEN << <<"no response">> >>
    ELSE LET sentences ==
                 SplitOn(ReplaceEnd(ReplaceEnd(ReplaceEnd(text, "."), "!"), "?"),
                         {"|"})
             per == [i \in 1..Len(sentences) |->
                        SentenceChunks(sentences[i], sentences[Len(sentences)])]
         IN  Concat(per)

----------------------------------------------------------------------------
\* _split_multiple_responses.  A question or answer marker is one symbol; a
\* regular expression of the source is the set of marker symbols it matches.

NumberedStart == {"1.", "2."}

\* patterns of BaseProvider._split_multiple_responses, in list order:
\* question n, answer n, question (n), answer (n), n. question, n. answer
base_patterns ==
    << {"Q1:", "Q2:", "Q 1:", "Q 2:"},
       {"A1:", "A2:", "A 1:", "A 2:"},
       {"Q1:", "Q2:", "Q 1:", "Q 2:", "Q(1):", "Q(2):"},
       {"A1:", "A2:", "A 1:", "A 2:", "A(1):", "A(2):"},
       {"1.Q:", "2.Q:"},
       {"1.A:", "2.A:"} >>

\* patterns of OpenrouterProvider._split_multiple_responses: the same, then
\* n-th question, n-th answer, question n., answer n., n. question(s),
\* n. answer(s)
openrouter_patterns ==
    base_patterns
    \o << {"No1Q:", "No2Q:"}, {"No1A:", "No2A:"}, {"Q1.", "Q2."}, {"A1.", "A2."},
          {"1.QQ:", "2.QQ:"}, {"1.AA:", "2.AA:"} >>

\* re.findall(pattern, content)
FindAll(content, pattern) ==
    LET Hit(sym) == sym \in pattern IN SelectSeq(content, Hit)

NonBlank(t) == Strip(t) # <<>>

\* the responses built from one pattern with more than one match
SplitByPattern(content, pattern) ==
    LET matches == FindAll(content, pattern)
        parts0 == SplitOn(content, pattern)
        parts == IF Strip(parts0[1]) = <<>> THEN Tail(parts0) ELSE parts0
    IN  [i \in 1..Len(parts) |->
            IF i <= Len(matches)
            THEN <<matches[i]>> \o Strip(parts[i])
            ELSE Strip(parts[i])]

RECURSIVE FirstPattern(_, _)
\* the first pattern, in list order, with more than one match (<<>>: none)
FirstPattern(content, patterns) ==
    IF patterns = <<>> THEN <<>>
    ELSE IF Len(FindAll(content, Head(patterns))) > 1
         THEN <<Head(patterns)>>
         ELSE FirstPattern(content, Tail(patterns))

Paragraphs(content) ==
    LET ps == SelectSeq(SplitParagraphs(content), NonBlank)
    IN  [i \in 1..Len(ps) |-> Strip(ps[i])]

\* BaseProvider._split_multiple_responses, and the identical copy in
\* OpenAICompatibleProvider
split_multiple_responses(content) ==
    LET hit == FirstPattern(content, base_patterns)
    IN  IF hit # <<>> THEN SplitByPattern(content, hit[1])
        ELSE IF Len(Paragraphs(content)) > 1 THEN Paragraphs(content)
        ELSE <<content>>

\* len(content): the number of characters the symbols stand for
CharLen(sym) ==
    IF sym \in Whitespace \cup SentenceEnd \cup Punct \cup {"|"} THEN 1
    ELSE IF sym \in NumberedStart THEN 2
    ELSE 4

RECURSIVE TextLen(_)
TextLen(t) == IF t = <<>> THEN 0 ELSE CharLen(Head(t)) + TextLen(Tail(t))

MinSplitLen == 10
MaxParagraphs == 10

\* OpenrouterProvider._split_multiple_responses
openrouter_split_multiple_responses(content) ==
    IF content = <<>> \/ TextLen(content) < MinSplitLen THEN <<content>>
    ELSE LET hit == FirstPattern(content, openrouter_patterns)
             paragraphs == Paragraphs(content)
             Numbered(p) == LStrip(p) # <<>> /\ Head(LStrip(p)) \in NumberedStart
             numbered_paragraphs == SelectSeq(paragraphs, Numbered)
         IN  IF hit # <<>>
             THEN SelectSeq(SplitByPattern(content, hit[1]), NonBlank)
             ELSE IF Len(paragraphs) > 1 /\ Len(numbered_paragraphs) > 1
                     /\ Len(numbered_paragraphs) = Len(paragraphs)
                  THEN numbered_paragraphs
                  ELSE IF Len(paragraphs) > 1 /\ 2 <= Len(paragraphs)
                          /\ Len(paragraphs) <= MaxParagraphs
                       THEN paragraphs
                       ELSE <<content>>

----------------------------------------------------------------------------
\* What a provider returns: the unified response.  ret is the value a
\* generator returns when it is exhausted (StopIteration.value), which a
\* for loop over the generator never sees.

ErrorResp(msg) ==
    [type |-> "error", error |-> msg, calls |-> <<>>, answers |-> <<>>,
     items |-> <<>>, text |-> <<>>, ret |-> <<>>]
ToolCallsResp(calls) ==
    [type |-> "tool_calls", error |-> <<>>, calls |-> calls, answers |-> <<>>,
     items |-> <<>>, text |-> <<>>, ret |-> <<>>]
MultiResp(answers) ==
    [type |-> "multi_responses", error |-> <<>>, calls |-> <<>>,
     answers |-> answers, items |-> <<>>, text |-> <<>>, ret |-> <<>>]
StreamResp(items, ret) ==
    [type |-> "stream", error |-> <<>>, calls |-> <<>>, answers |-> <<>>,
     items |-> items, text |-> <<>>, ret |-> ret]
TextResp(text) ==
    [type |-> "text", error |-> <<>>, calls |-> <<>>, answers |-> <<>>,
     items |-> <<>>, text |-> text, ret |-> <<>>]
NoneResp ==
    [type |-> "none", error |-> <<>>, calls |-> <<>>, answers |-> <<>>,
     items |-> <<>>, text |-> <<>>, ret |-> <<>>]
NoResp ==
    [type |-> "unset", error |-> <<>>, calls |-> <<>>, answers |-> <<>>,
     items |-> <<>>, text |-> <<>>, ret |-> <<>>]

\* What a generator produces on one next(): a str chunk, a {"error": ...}
\* dict, a {"tool_calls": ...} dict, or an exception.
ContentItem(text) == [k |-> "content", v |-> text, calls |-> <<>>]
ErrorItem(msg) == [k |-> "error", v |-> msg, calls |-> <<>>]
ToolCallsItem(calls) == [k |-> "tool_calls", v |-> <<>>, calls |-> calls]
RaiseItem == [k |-> "raise", v |-> <<>>, calls |-> <<>>]

\* The content None of a reply.
NoneText == <<"None">>
\* the fixed text returned when a reply has no usable content
NoValidReply == <<"no valid reply">>

\* f"call_{i}"
CallId(i) ==
    CASE i = 0 -> "call_0" [] i = 1 -> "call_1" [] i = 2 -> "call_2"
      [] i = 3 -> "call_3" [] OTHER -> "call_n"

ToolCall(id, name, arguments) == [id |-> id, name |-> name, arguments |-> arguments]

RECURSIVE ExtractDictRenumbering(_, _)
\* ExtractDict, were a generated id to count the calls returned so far
ExtractDictRenumbering(tool_calls, i) ==
    IF tool_calls = <<>> THEN <<>>
    ELSE LET tc == Head(tool_calls)
         IN  IF tc.name = "" THEN ExtractDictRenumbering(Tail(tool_calls), i)
             ELSE <<ToolCall(IF tc.id = "" THEN CallId(i) ELSE tc.id,
                             tc.name, tc.arguments)>>
                  \o ExtractDictRenumbering(Tail(tool_calls), i + 1)

RECURSIVE ExtractDict(_, _)
\* the loop of _extract_tool_calls over a list of dicts: a call without an
\* id gets call_<i>, a call without a name is skipped
ExtractDict(tool_calls, i) ==
    IF tool_calls = <<>> THEN <<>>
    ELSE LET tc == Head(tool_calls)
             rest == ExtractDict(Tail(tool_calls), i + 1)
         IN  IF tc.name = "" THEN rest
             ELSE <<ToolCall(IF tc.id = "" THEN CallId(i) ELSE tc.id,
                             tc.name, tc.arguments)>> \o rest

\* the loop of _extract_tool_calls over the tool calls of an SDK message,
\* and the same loop of OpenaiProvider over the tool calls of a delta
ExtractSdk(tool_calls) ==
    [j \in 1..Len(tool_calls) |->
        ToolCall(IF tool_calls[j].id = "" THEN CallId(j - 1) ELSE tool_calls[j].id,
                 tool_calls[j].name, tool_calls[j].arguments)]

\* BaseProvider._extract_tool_calls: <<>> stands for None
extract_tool_calls(layout, tool_calls) ==
    IF layout = "sdk" THEN ExtractSdk(tool_calls) ELSE ExtractDict(tool_calls, 0)

\* the tool calls of AnthropicProvider's non-streaming branch: call_<i>,
\* name, json.dumps(parameters)
AnthropicCalls(tool_calls) ==
    [j \in 1..Len(tool_calls) |->
        ToolCall(CallId(j - 1), tool_calls[j].name,
                 JsonDumps(JsonLoads(tool_calls[j].arguments)))]

\* the check for several answers in one content
HasMultiMarker(content, markers) ==
    \E m \in markers : HasInfix(content, <<"\n", "\n", m>>)

BaseMultiMarkers == {"Q1:", "Q 1:"}
OpenrouterMultiMarkers == {"Q1:", "Q 1:", "A1:", "A 1:"}

----------------------------------------------------------------------------
\* The streamed replies.  An event is one decoded unit of the reply: a
\* content delta, a delta with a tool-call list ("tool"), a delta whose
\* tool_calls attribute is None ("null_tool", SDK objects only), a line
\* that is no JSON ("bad"), the "[DONE]" line, or the failure of the
\* connection while the reply is read ("raise").  fin: finish_reason is
\* "tool_calls".

Event(k, v, calls, fin) == [k |-> k, v |-> v, calls |-> calls, fin |-> fin]

RECURSIVE SseWalkReporting(_)
\* SseWalk, were stream_response to yield the tool call it reads instead of
\* returning it
SseWalkReporting(events) ==
    IF events = <<>> THEN <<>>
    ELSE LET e == Head(events) IN
         CASE e.k = "done" -> <<>>
           [] e.k = "tool" -> <<ToolCallsItem(<<e.calls[1]>>)>>
           [] e.k = "raise" -> <<RaiseItem>>
           [] e.k = "content" ->
                (IF e.v # <<>> THEN <<ContentItem(e.v)>> ELSE <<>>)
                \o SseWalkReporting(Tail(events))
           [] OTHER -> SseWalkReporting(Tail(events))

RECURSIVE SseWalkStopping(_)
\* SseWalk, were a line that is no JSON to end the loop
SseWalkStopping(events) ==
    IF events = <<>> THEN <<>>
    ELSE LET e == Head(events) IN
         CASE e.k \in {"done", "bad", "tool"} -> <<>>
           [] e.k = "raise" -> <<RaiseItem>>
           [] e.k = "content" ->
                (IF e.v # <<>> THEN <<ContentItem(e.v)>> ELSE <<>>)
                \o SseWalkStopping(Tail(events))
           [] OTHER -> SseWalkStopping(Tail(events))

RECURSIVE SseWalk(_)
\* the loop over response.iter_lines() of stream_response
\* (OpenAICompatibleProvider, ModelscopeProvider)
SseWalk(events) ==
    IF events = <<>> THEN <<>>
    ELSE LET e == Head(events) IN
         CASE e.k = "done" -> <<>>
           [] e.k = "bad" -> SseWalk(Tail(events))
           [] e.k = "tool" -> <<>>
           [] e.k = "raise" -> <<RaiseItem>>
           [] e.k = "content" ->
                (IF e.v # <<>> THEN <<ContentItem(e.v)>> ELSE <<>>)
                \o SseWalk(Tail(events))
           [] OTHER -> SseWalk(Tail(events))

RECURSIVE SseReturn(_)
\* the value stream_response returns: the first tool call of the first
\* tool-call delta it reads
SseReturn(events) ==
    IF events = <<>> THEN <<>>
    ELSE LET e == Head(events) IN
         CASE e.k \in {"done", "raise"} -> <<>>
           [] e.k = "tool" ->
                <<ToolCall(IF e.calls[1].id = "" THEN "call_0" ELSE e.calls[1].id,
                           e.calls[1].name, e.calls[1].arguments)>>
           [] OTHER -> SseReturn(Tail(events))

\* stream_response of OpenAICompatibleProvider and ModelscopeProvider: the
\* request is sent when the generator is first resumed
stream_response(sse) ==
    IF sse.status = "exception" THEN StreamResp(<<RaiseItem>>, <<>>)
    ELSE IF sse.status # "ok"
         THEN StreamResp(<<ErrorItem(<<"API error:", sse.status>>)>>, <<>>)
         ELSE StreamResp(SseWalk(sse.events), SseReturn(sse.events))

RECURSIVE AnthropicWalk(_)
\* the loop over response.iter_lines() of AnthropicProvider.generate_stream
AnthropicWalk(events) ==
    IF events = <<>> THEN <<>>
    ELSE LET e == Head(events) IN
         CASE e.k = "tool" -> <<>>
           [] e.k = "raise" -> <<RaiseItem>>
           [] e.k = "content" ->
                (IF e.v # <<>> THEN <<ContentItem(e.v)>> ELSE <<>>)
                \o AnthropicWalk(Tail(events))
           [] OTHER -> AnthropicWalk(Tail(events))

RECURSIVE AnthropicReturn(_)
\* tool_call_data, the value generate_stream returns
AnthropicReturn(events) ==
    IF events = <<>> THEN <<>>
    ELSE LET e == Head(events) IN
         CASE e.k = "raise" -> <<>>
           [] e.k = "tool" ->
                <<ToolCall("call_0", e.calls[1].name,
                           JsonDumps(JsonLoads(e.calls[1].arguments)))>>
           [] OTHER -> AnthropicReturn(Tail(events))

RECURSIVE OpenrouterWalk(_)
\* the loop over response_stream of OpenrouterProvider.stream_response,
\* inside its try/except
OpenrouterWalk(events) ==
    IF events = <<>> THEN <<>>
    ELSE LET e == Head(events) IN
         CASE e.k = "raise" -> <<ErrorItem(<<"OpenRouter API error">>)>>
           [] e.k = "content" ->
                (IF e.v # <<>> THEN <<ContentItem(e.v)>> ELSE <<>>)
                \o OpenrouterWalk(Tail(events))
           [] OTHER -> OpenrouterWalk(Tail(events))

RECURSIVE OpenaiWalk(_)
\* the loop over response of OpenaiProvider.generate_stream
OpenaiWalk(events) ==
    IF events = <<>> THEN <<>>
    ELSE LET e == Head(events) IN
         CASE e.k = "raise" -> <<RaiseItem>>
           [] e.k = "content" ->
                (IF e.v # <<>> THEN <<ContentItem(e.v)>> ELSE <<>>)
                \o OpenaiWalk(Tail(events))
           [] OTHER -> OpenaiWalk(Tail(events))

RECURSIVE CollectToolChunks(_, _)
\* for chunk in response: tool_call_chunks.append(chunk), until a chunk
\* whose finish_reason is "tool_calls".  The result is the last chunk
\* appended, or a "raise" event when reading fails.
CollectToolChunks(events, last) ==
    IF events = <<>> THEN last
    ELSE LET e == Head(events) IN
         IF e.k = "raise" THEN e
         ELSE IF e.fin THEN e
         ELSE CollectToolChunks(Tail(events), e)

----------------------------------------------------------------------------
\* The replies of a back-end, and generate_response of every provider.
\* status: "ok" (200 and a JSON body), "bad_json" (200 and a body that is
\* no JSON), "http_error" (not 200), "exception" (the request raises:
\* connection error, timeout).  For the SDK-based providers every status
\* but "ok" is an exception raised by the SDK.

Reply(status, calls, content) ==
    [status |-> status, calls |-> calls, content |-> content]
Sse(status, events) == [status |-> status, events |-> events]

NoReply == Reply("ok", <<>>, <<>>)
NoSse == Sse("ok", <<>>)

\* reply: the reply to the non-streaming request (the probe, when stream is
\* requested); sse: the reply to the streaming request; fallback: the reply
\* to OpenrouterProvider's second non-streaming request; unified: what a
\* provider whose code is not in the repository returns.
Backend(reply, sse, fallback, unified) ==
    [reply |-> reply, sse |-> sse, fallback |-> fallback, unified |-> unified]

\* the content branch of OpenAICompatibleProvider (non-streaming)
CompatContent(content) ==
    IF content = NoneText THEN ErrorResp(<<"OpenAI compatible API error">>)
    ELSE IF HasMultiMarker(content, BaseMultiMarkers)
         THEN MultiResp(split_multiple_responses(content))
         ELSE TextResp(content)

\* OpenAICompatibleProvider.generate_response
openai_compatible_generate_response(b, has_tools, stream) ==
    LET r == b.reply
        tool_calls_result == extract_tool_calls("dict", r.calls)
    IN  IF r.status \in {"exception", "bad_json"}
        THEN ErrorResp(<<"OpenAI compatible API error">>)
        ELSE IF stream
             THEN IF r.status = "ok" /\ tool_calls_result # <<>>
                  THEN ToolCallsResp(tool_calls_result)
                  ELSE stream_response(b.sse)
             ELSE IF r.status = "ok"
                  THEN IF tool_calls_result # <<>>
                       THEN ToolCallsResp(tool_calls_result)
                       ELSE CompatContent(r.content)
                  ELSE ErrorResp(<<"API error:", r.status>>)

\* the content branch of ModelscopeProvider (non-streaming)
ModelscopeContent(content) ==
    IF content = NoneText \/ content = <<>> THEN TextResp(NoValidReply)
    ELSE IF HasMultiMarker(content, BaseMultiMarkers)
         THEN MultiResp(split_multiple_responses(content))
         ELSE TextResp(content)

\* ModelscopeProvider.generate_response
modelscope_generate_response(b, has_tools, stream) ==
    LET r == b.reply
        tool_calls_result == extract_tool_calls("dict", r.calls)
    IN  IF r.status = "http_error" THEN ErrorResp(<<"API error:", r.status>>)
        ELSE IF r.status # "ok" THEN ErrorResp(<<"request failed">>)
        ELSE IF tool_calls_result # <<>> THEN ToolCallsResp(tool_calls_result)
        ELSE IF stream THEN stream_response(b.sse)
        ELSE ModelscopeContent(r.content)

\* AnthropicProvider.generate_response
anthropic_generate_response(b, has_tools, stream) ==
    IF stream
    THEN IF b.sse.status = "http_error" THEN ErrorResp(<<"API error:", b.sse.status>>)
         ELSE IF b.sse.status # "ok" THEN ErrorResp(<<"request exception">>)
         ELSE StreamResp(AnthropicWalk(b.sse.events), AnthropicReturn(b.sse.events))
    ELSE LET r == b.reply IN
         IF r.status = "http_error" THEN ErrorResp(<<"API error:", r.status>>)
         ELSE IF r.status # "ok" THEN ErrorResp(<<"request exception">>)
         ELSE IF r.calls # <<>> THEN ToolCallsResp(AnthropicCalls(r.calls))
         ELSE IF r.content = NoneText \/ r.content = <<>>
              THEN TextResp(NoValidReply)
              ELSE TextResp(r.content)

\* the basic non-streaming call of OpenrouterProvider
OpenrouterBasic(r) ==
    IF r.status # "ok" THEN ErrorResp(<<"OpenRouter API error">>)
    ELSE IF r.content = NoneText THEN NoneResp
    ELSE IF r.content # <<>> /\ HasMultiMarker(r.content, OpenrouterMultiMarkers)
         THEN MultiResp(openrouter_split_multiple_responses(r.content))
         ELSE TextResp(r.content)

\* OpenrouterProvider.generate_response
openrouter_generate_response(b, has_tools, stream) ==
    IF has_tools /\ ~stream
    THEN IF b.reply.status # "ok" THEN OpenrouterBasic(b.fallback)
         ELSE IF extract_tool_calls("sdk", b.reply.calls) # <<>>
              THEN ToolCallsResp(extract_tool_calls("sdk", b.reply.calls))
              ELSE IF b.reply.content = NoneText THEN NoneResp
                   ELSE TextResp(b.reply.content)
    ELSE IF stream
         THEN IF b.sse.status # "ok"
              THEN StreamResp(<<ErrorItem(<<"OpenRouter API error">>)>>, <<>>)
              ELSE StreamResp(OpenrouterWalk(b.sse.events), <<>>)
         ELSE OpenrouterBasic(b.reply)

\* the streaming branch of OpenaiProvider.generate_response
OpenaiStream(sse) ==
    IF sse.status # "ok" THEN ErrorResp(<<"stream request error">>)
    ELSE IF sse.events = <<>> THEN ErrorResp(<<"stream returned no data">>)
    ELSE LET first_chunk == sse.events[1] IN
         IF first_chunk.k = "raise" THEN ErrorResp(<<"stream request error">>)
         ELSE IF first_chunk.k \in {"tool", "null_tool"}
              THEN LET last == CollectToolChunks(Tail(sse.events), first_chunk)
                   IN  IF last.k = "tool"
                       THEN ToolCallsResp(ExtractSdk(last.calls))
                       ELSE ErrorResp(<<"stream request error">>)
              ELSE StreamResp(OpenaiWalk(sse.events), <<>>)

\* OpenaiProvider.generate_response
openai_generate_response(b, has_tools, stream) ==
    IF stream THEN OpenaiStream(b.sse)
    ELSE LET r == b.reply IN
         IF r.status # "ok" THEN ErrorResp(<<"request error">>)
         ELSE IF extract_tool_calls("sdk", r.calls) # <<>>
              THEN ToolCallsResp(extract_tool_calls("sdk", r.calls))
              ELSE IF r.content = NoneText \/ r.content = <<>>
                   THEN TextResp(NoValidReply)
                   ELSE TextResp(r.content)

\* SiliconflowProvider.generate_response: providers/__init__.py imports it,
\* its module is not part of the sources.  It obeys the provider contract:
\* the response is one of the unified variants.
siliconflow_generate_response(b, has_tools, stream) == b.unified

Providers ==
    {"anthropic", "openai_compatible", "modelscope", "openrouter", "openai",
     "siliconflow"}

\* LargeLanguageModel.generate_response: the provider's response as it is
provider_generate_response(provider, b, has_tools, stream) ==
    CASE provider = "anthropic" -> anthropic_generate_response(b, has_tools, stream)
      [] provider = "openai_compatible" ->
            openai_compatible_generate_response(b, has_tools, stream)
      [] provider = "modelscope" -> modelscope_generate_response(b, has_tools, stream)
      [] provider = "openrouter" -> openrouter_generate_response(b, has_tools, stream)
      [] provider = "openai" -> openai_generate_response(b, has_tools, stream)
      [] OTHER -> siliconflow_generate_response(b, has_tools, stream)

\* The HTTP requests a provider issues for one generate_response call whose
\* Stream (if any) is iterated, as the statuses of their replies in the
\* order the requests are sent.  OpenAICompatibleProvider sends the
\* streaming request whenever the probe did not raise and carried no tool
\* call, whatever the status of the probe; ModelscopeProvider returns on a
\* probe that is not 200; OpenrouterProvider, given tools and no stream,
\* sends the basic request after a failed request with tools.
http_requests(provider, b, has_tools, stream) ==
    CASE provider = "openai_compatible" ->
            IF stream /\ b.reply.status \notin {"exception", "bad_json"}
               /\ ~(b.reply.status = "ok"
                    /\ extract_tool_calls("dict", b.reply.calls) # <<>>)
            THEN <<b.reply.status, b.sse.status>>
            ELSE <<b.reply.status>>
      [] provider = "modelscope" ->
            IF stream /\ b.reply.status = "ok"
               /\ extract_tool_calls("dict", b.reply.calls) = <<>>
            THEN <<b.reply.status, b.sse.status>>
            ELSE <<b.reply.status>>
      [] provider = "openrouter" ->
            IF has_tools /\ ~stream
            THEN IF b.reply.status # "ok"
                 THEN <<b.reply.status, b.fallback.status>>
                 ELSE <<b.reply.status>>
            ELSE IF stream THEN <<b.sse.status>> ELSE <<b.reply.status>>
      [] provider \in {"anthropic", "openai"} ->
            IF stream THEN <<b.sse.status>> ELSE <<b.reply.status>>
      [] OTHER -> <<>>

----------------------------------------------------------------------------
\* The inputs of the model: what the model behind a provider replies.

GoodCall == ToolCall("call_a", "weather", <<"{", "city", ":", "bj", "}">>)
CaseCall == ToolCall("", "weather", <<"{", "CITY", ":", "bj", "}">>)
MissingCall == ToolCall("call_b", "translation", <<"{", "}">>)
BadJsonCall == ToolCall("call_c", "weather", <<"{", "city">>)
NonDictCall == ToolCall("call_d", "weather", <<"[", "bj", "]">>)
UnknownCall == ToolCall("call_e", "calculator", <<"{", "}">>)

WireCalls ==
    {GoodCall, CaseCall, MissingCall, BadJsonCall, NonDictCall, UnknownCall}

CallLists == SeqsUpTo(WireCalls, MaxCalls) \ {<<>>}

ContentEv == Event("content", <<"a">>, <<>>, FALSE)
ToolEv == Event("tool", <<>>, <<GoodCall>>, FALSE)
ToolFinEv == Event("tool", <<>>, <<GoodCall>>, TRUE)
NullToolEv == Event("null_tool", <<>>, <<>>, FALSE)
BadEv == Event("bad", <<>>, <<>>, FALSE)
DoneEv == Event("done", <<>>, <<>>, FALSE)
RaiseEv == Event("raise", <<>>, <<>>, FALSE)

\* the events a streamed reply is made of, by what the provider can see:
\* SSE lines (requests) or SDK chunk objects
SseEvents == {ContentEv, ToolEv, BadEv, DoneEv, RaiseEv}
SdkEvents == {ContentEv, ToolEv, ToolFinEv, NullToolEv, RaiseEv}

SseReplies(alphabet) ==
    {Sse(st, <<>>) : st \in {"http_error", "exception"}}
    \cup {Sse("ok", ev) : ev \in SeqsUpTo(alphabet, MaxEvents)}

MultiText == <<"x", "\n", "\n", "Q1:", "a", "\n", "\n", "Q2:", "b">>
SummaryTexts == {<<>>, <<"a">>, <<"a", ".", " ", "b">>, MultiText}

\* the replies to a non-streaming request
PlainReplies ==
    {Reply(st, <<>>, <<>>) : st \in {"bad_json", "http_error", "exception"}}
    \cup {Reply("ok", <<GoodCall>>, <<>>)}
    \cup {Reply("ok", <<>>, t) : t \in SummaryTexts \cup {NoneText}}

\* the replies to the probe OpenAICompatibleProvider and ModelscopeProvider
\* send before they stream
ProbeReplies ==
    {Reply(st, <<>>, <<>>) : st \in {"ok", "bad_json", "http_error", "exception"}}
    \cup {Reply("ok", c, <<>>) : c \in CallLists}

\* what SiliconflowProvider may return to the first request of a turn, and
\* to the summary request
UnifiedFirst ==
    {ErrorResp(<<"failure">>), NoneResp, MultiResp(<< <<"a">>, <<"b">> >>)}
    \cup {ToolCallsResp(c) : c \in CallLists}
    \cup {TextResp(t) : t \in {<<>>, <<"a">>}}
    \cup {StreamResp(items, <<>>) :
            items \in SeqsUpTo({ContentItem(<<"a">>), ErrorItem(<<"failure">>)},
                               MaxEvents)}
UnifiedSummary ==
    {ErrorResp(<<"failure">>), NoneResp, MultiResp(<< <<"a">>, <<"b">> >>),
     ToolCallsResp(<<GoodCall>>)}
    \cup {TextResp(t) : t \in SummaryTexts}

\* the back-ends the first request of a turn (tools, stream=True) can meet
FirstBackends(provider) ==
    CASE provider \in {"openai_compatible", "modelscope"} ->
            {Backend(r, NoSse, NoReply, NoResp) :
                r \in {q \in ProbeReplies : q.calls # <<>>}}
            \cup {Backend(r, s, NoReply, NoResp) :
                    r \in {q \in ProbeReplies : q.calls = <<>>},
                    s \in SseReplies(SseEvents)}
      [] provider = "anthropic" ->
            {Backend(NoReply, s, NoReply, NoResp) : s \in SseReplies(SseEvents)}
      [] provider = "openai" ->
            {Backend(NoReply, s, NoReply, NoResp) : s \in SseReplies(SdkEvents)}
      [] provider = "openrouter" ->
            {Backend(NoReply, s, NoReply, NoResp) :
                s \in SseReplies(SdkEvents \ {ToolEv, ToolFinEv})}
      [] OTHER -> {Backend(NoReply, NoSse, NoReply, u) : u \in UnifiedFirst}

\* the back-ends the summary request (no tools, stream=False) can meet
SummaryBackends(provider) ==
    IF provider = "siliconflow"
    THEN {Backend(NoReply, NoSse, NoReply, u) : u \in UnifiedSummary}
    ELSE {Backend(r, NoSse, NoReply, NoResp) : r \in PlainReplies}

RECURSIVE FirstToolEvent(_)
\* the tool-call list of the first tool-call delta of a streamed reply that
\* arrives before the reply ends or breaks
FirstToolEvent(events) ==
    IF events = <<>> THEN <<>>
    ELSE LET e == Head(events) IN
         IF e.k \in {"done", "raise"} THEN <<>>
         ELSE IF e.k = "tool" THEN e.calls
         ELSE FirstToolEvent(Tail(events))

\* The tool calls in the model's reply to the first request of a turn: the
\* reply the provider builds its response from.  OpenrouterProvider sends
\* no tools with a streaming request.
ReplyToolCalls(provider, b) ==
    CASE provider \in {"openai_compatible", "modelscope"} ->
            IF b.reply.status = "ok" /\ b.reply.calls # <<>> THEN b.reply.calls
            ELSE IF b.reply.status \in {"bad_json", "exception"} THEN <<>>
            ELSE IF provider = "modelscope" /\ b.reply.status # "ok" THEN <<>>
            ELSE IF b.sse.status = "ok" THEN FirstToolEvent(b.sse.events)
            ELSE <<>>
      [] provider \in {"anthropic", "openai"} ->
            IF b.sse.status = "ok" THEN FirstToolEvent(b.sse.events) ELSE <<>>
      [] provider = "openrouter" -> <<>>
      [] OTHER -> b.unified.calls

\* what generate_response(full_context, tools=available_tools, stream=True)
\* can return, with the tool calls of the reply it was built from
FirstOutcomes ==
    [prov \in Providers |->
        {[response |-> provider_generate_response(prov, b, TRUE, TRUE),
          reply_calls |-> ReplyToolCalls(prov, b),
          http |-> http_requests(prov, b, TRUE, TRUE)] : b \in FirstBackends(prov)}]

\* what generate_response(multi_tools_prompt, stream=False) can return
SummaryOutcomes ==
    [prov \in Providers |->
        {provider_generate_response(prov, b, FALSE, FALSE) :
            b \in SummaryBackends(prov)}]

----------------------------------------------------------------------------
\* The state of the agent.

VARIABLES
    provider,               \* self.llm.provider, fixed at construction
    conversation_history,   \* self.conversation_history
    pc,                     \* the yield at which the generator is suspended
    prompt,                 \* run: prompt
    response,               \* run: response
    pos,                    \* how many items of the iterated list or
                            \* generator the for loop of run has taken
    full_response,          \* run: full_response (the list of chunks)
    tool_calls,             \* _handle_tool_call: tool_calls
    i,                      \* _handle_tool_call: i + 1
    tool_args,              \* _handle_tool_call: tool_args
    entry,                  \* the dict the statement after the yield appends
    tool_results,           \* _handle_tool_call: tool_results
    summary_response,       \* _handle_tool_call: summary_response
    words,                  \* the chunks _stream_text has yet to yield
    out,                    \* history: the chunks the caller got this turn
    log,                    \* history: what happened this turn, in order
    requests,               \* history: the generation requests of this turn
    h0,                     \* history: conversation_history when run began
    reply_calls,            \* history: the tool calls of the model's reply
    http,                   \* history: the statuses of the HTTP requests of
                            \* the first generation request of this turn
    turns,                  \* history: how many times run was called
    execute_tool,           \* a call of _execute_tool on its own: its
                            \* arguments and, once it returned, its outcome
    method_call,            \* a call of one of the other methods on its
                            \* own: its name, its input and, once it
                            \* returned, its output
    peer                    \* a second ChatAgent of the same process: its
                            \* fields and the position of its generator

agent_vars ==
    <<provider, conversation_history, pc, prompt, response, pos, full_response,
      tool_calls, i, tool_args, entry, tool_results, summary_response, words,
      out, log, requests, h0, reply_calls, http, turns>>

vars == <<agent_vars, execute_tool, method_call, peer>>

Prompts == {<<"hi">>}

Message(role, content) == [role |-> role, content |-> content]

\* a chunk the caller receives: its template k, the call number and the
\* call count the template shows (0: none), and the text it carries
Chunk(k, idx, n, v) == [k |-> k, i |-> idx, n |-> n, v |-> v]

LogEvent(e, k, idx) == [e |-> e, k |-> k, i |-> idx]

\* a call of self.llm.generate_response
Request(kind, text, summary, has_tools, stream) ==
    [kind |-> kind, prompt |-> text, summary |-> summary,
     has_tools |-> has_tools, stream |-> stream]

\* an element of tool_results
ResultEntry(id, name, args, result, success) ==
    [id |-> id, name |-> name, args |-> args, result |-> result,
     success |-> success]

NoEntry == ResultEntry("", "", PyDict(<<>>), <<>>, FALSE)

\* the frame: the variables an action reads and writes, as one record
Cur ==
    [conversation_history |-> conversation_history, pc |-> pc,
     prompt |-> prompt, response |-> response, pos |-> pos,
     full_response |-> full_response, tool_calls |-> tool_calls, i |-> i,
     tool_args |-> tool_args, entry |-> entry, tool_results |-> tool_results,
     summary_response |-> summary_response, words |-> words, out |-> out,
     log |-> log, requests |-> requests, h0 |-> h0,
     reply_calls |-> reply_calls, http |-> http, turns |-> turns]

Commit(st) ==
    /\ conversation_history' = st.conversation_history
    /\ pc' = st.pc
    /\ prompt' = st.prompt
    /\ response' = st.response
    /\ pos' = st.pos
    /\ full_response' = st.full_response
    /\ tool_calls' = st.tool_calls
    /\ i' = st.i
    /\ tool_args' = st.tool_args
    /\ entry' = st.entry
    /\ tool_results' = st.tool_results
    /\ summary_response' = st.summary_response
    /\ words' = st.words
    /\ out' = st.out
    /\ log' = st.log
    /\ requests' = st.requests
    /\ h0' = st.h0
    /\ reply_calls' = st.reply_calls
    /\ http' = st.http
    /\ turns' = st.turns
    /\ UNCHANGED <<provider, execute_tool, method_call, peer>>

\* a call of _execute_tool: before it ("called") and after it ("returned")
Execution(state, name, arguments, raises, r) ==
    [state |-> state, tool_name |-> name, tool_args |-> arguments,
     raises |-> raises, result |-> r.result, args |-> r.args,
     invoked |-> r.invoked, kwargs |-> r.kwargs]

\* a call of a method on its own: before it ("called") and after it
\* ("returned")
Called(fn, input) == [fn |-> fn, input |-> input, state |-> "called", output |-> <<>>]

\* no method is called on its own
NoCall == [fn |-> "none", input |-> <<>>, state |-> "none", output |-> <<>>]

\* no outcome yet
NoOutcome == [result |-> ToolOk(<<>>), args |-> <<>>, invoked |-> FALSE, kwargs |-> <<>>]

\* the agent after ChatAgent.__init__, before the first run
AgentInit ==
    /\ conversation_history = <<>>
    /\ pc = "idle"
    /\ prompt = <<>>
    /\ response = NoResp
    /\ pos = 0
    /\ full_response = <<>>
    /\ tool_calls = <<>>
    /\ i = 0
    /\ tool_args = PyDict(<<>>)
    /\ entry = NoEntry
    /\ tool_results = <<>>
    /\ summary_response = NoResp
    /\ words = <<>>
    /\ out = <<>>
    /\ log = <<>>
    /\ requests = <<>>
    /\ h0 = <<>>
    /\ reply_calls = <<>>
    /\ http = <<>>
    /\ turns = 0

Init ==
    /\ provider \in Providers
    /\ AgentInit
    /\ execute_tool = Execution("none", "", <<>>, FALSE, NoOutcome)
    /\ method_call = NoCall
    /\ peer = Cur

\* yield: the caller receives the chunk, the generator is suspended at at
Emit(st, at, k, idx, n, v) ==
    [st EXCEPT !.pc = at,
               !.out = Append(@, Chunk(k, idx, n, v)),
               !.log = Append(@, LogEvent("yield", k, idx))]

\* the generator returns: the caller's loop ends
Finish(st) == [st EXCEPT !.pc = "idle"]

\* HistoryAppend, were the message to take the place of the last one
HistoryAppendReplacing(st, role, content) ==
    [st EXCEPT !.conversation_history =
        Append(SubSeq(@, 1, Len(@) - 1), Message(role, content))]

\* self.conversation_history.append({"role": role, "content": content})
HistoryAppend(st, role, content) ==
    [st EXCEPT !.conversation_history = Append(@, Message(role, content))]

RECURSIVE JoinWith(_, _)
\* sep.join(parts)
JoinWith(parts, sep) ==
    IF parts = <<>> THEN <<>>
    ELSE IF Len(parts) = 1 THEN parts[1]
    ELSE parts[1] \o sep \o JoinWith(Tail(parts), sep)

\* "\n".join(f"{msg['role']}: {msg['content']}" for msg in history)
FullContext(history) ==
    JoinWith([j \in 1..Len(history) |->
                 <<history[j].role, ":", " ">> \o history[j].content],
             <<"\n">>)

----------------------------------------------------------------------------
\* ChatAgent._handle_tool_call, from one yield to the next.

\* the top of "for i, tool_call in enumerate(tool_calls)" for call idx, and
\* the code after the loop when no call is left
ToolLoop(st, idx) ==
    IF idx > Len(st.tool_calls)
    THEN Emit(st, "reply_marker", "reply_marker", 0, 0, <<>>)
    ELSE Emit([st EXCEPT !.i = idx], "tool_head", "tool_head", idx,
              Len(st.tool_calls), <<st.tool_calls[idx].name>>)

\* the entry of _handle_tool_call(response, prompt)
handle_tool_call(st, calls) ==
    IF calls = <<>>
    THEN Emit(st, "no_tool_calls", "no_tool_calls", 0, 0, <<>>)
    ELSE ToolLoop([st EXCEPT !.tool_calls = calls, !.tool_results = <<>>], 1)

\* error_msg of the except json.JSONDecodeError branch
ParseErrorMsg(tool_args_str) == <<"cannot parse arguments:">> \o tool_args_str
\* error_msg of the except Exception branch, for the ValueError of line 183
ValueErrorMsg == <<"tool failed:", "arguments are no JSON dict">>

\* after the tool-name chunk: json.loads, the isinstance check, and either
\* the arguments chunk or the chunk of one of the two except branches
DecodeArguments(st) ==
    LET call == st.tool_calls[st.i]
        parsed == JsonLoads(call.arguments)
    IN  CASE parsed.t = "error" ->
                [Emit(st, "parse_error", "parse_error", st.i, 0,
                      <<"[error]">> \o ParseErrorMsg(call.arguments))
                 EXCEPT !.entry = ResultEntry(call.id, call.name,
                                              PyStrVal(call.arguments),
                                              ParseErrorMsg(call.arguments), FALSE)]
          [] parsed.t # "dict" ->
                [Emit(st, "exec_error", "exec_error", st.i, 0,
                      <<"[error]">> \o ValueErrorMsg)
                 EXCEPT !.tool_args = parsed,
                        !.entry = ResultEntry(call.id, call.name, parsed,
                                              ValueErrorMsg, FALSE)]
          [] OTHER ->
                [Emit(st, "tool_args", "tool_args", st.i, 0, JsonDumps(parsed))
                 EXCEPT !.tool_args = parsed]

\* after the arguments chunk: _execute_tool, then the result chunk or the
\* error chunk
ExecuteCall(st, raises) ==
    LET call == st.tool_calls[st.i]
        r == ExecuteTool(call.name, st.tool_args.d, raises)
        error_msg == <<"[tool error]">> \o r.result.v
        st1 == [st EXCEPT
                  !.tool_args = PyDict(r.args),
                  !.log = Append(@, LogEvent("execute",
                                    IF ~r.invoked THEN "not_invoked"
                                    ELSE IF raises THEN "raised" ELSE "returned",
                                    st.i))]
    IN  IF r.result.error
        THEN [Emit(st1, "tool_error", "tool_error", st.i, 0, error_msg)
              EXCEPT !.entry = ResultEntry(call.id, call.name, PyDict(r.args),
                                           error_msg, FALSE)]
        ELSE [Emit(st1, "tool_result", "tool_result", st.i, 0, r.result.v)
              EXCEPT !.entry = ResultEntry(call.id, call.name, PyDict(r.args),
                                           r.result.v, TRUE)]

\* Record, were the append left out
RecordDropped(st) == st

\* tool_results.append({...})
Record(st) ==
    [st EXCEPT !.tool_results = Append(@, st.entry),
               !.log = Append(@, LogEvent("record",
                                 IF st.entry.success THEN "ok" ELSE "failed",
                                 st.i))]

\* after the result or error chunk of an executed call: the append, then
\* the separator when the call is not the last, else the next iteration
AfterExecution(st) ==
    LET st1 == Record(st)
    IN  IF st.i < Len(st.tool_calls)
        THEN Emit(st1, "separator", "separator", st.i, 0, <<>>)
        ELSE ToolLoop(st1, st.i + 1)

\* AfterFailure, were the except branches to leave the loop
AfterFailureBreak(st) == ToolLoop(Record(st), Len(st.tool_calls) + 1)

\* AfterFailure, were a failed call to end the turn
AfterFailureReturning(st) == Finish(Record(st))

\* after the chunk of an except branch: the append, then the next iteration
AfterFailure(st) == ToolLoop(Record(st), st.i + 1)

\* f"tool{i+1}"
ToolLabel(j) ==
    CASE j = 1 -> "tool1" [] j = 2 -> "tool2" [] j = 3 -> "tool3"
      [] j = 4 -> "tool4" [] OTHER -> "tooln"

\* SummaryEntry, were the failed calls formatted like the successful ones
SummaryEntryUnmarked(j, result) ==
    <<ToolLabel(j), ":", result.name, "\n", "args:">> \o JsonDumps(result.args)
    \o <<"\n", "result:">> \o result.result

\* one element of tool_results_summary
SummaryEntry(j, result) ==
    <<ToolLabel(j), ":", result.name, "\n", "args:">> \o JsonDumps(result.args)
    \o <<"\n", "result:">> \o result.result
    \o (IF result.success THEN <<>> ELSE <<"(failed)">>)

tool_results_summary(results) ==
    [j \in 1..Len(results) |-> SummaryEntry(j, results[j])]

\* multi_tools_prompt
MultiToolsPrompt(original_prompt, summary) ==
    <<"question:">> \o original_prompt \o <<"\n", "results:", "\n", "====", "\n">>
    \o JoinWith(summary, <<"\n", "====", "\n">>)
    \o <<"\n", "====", "\n", "answer the question">>

\* SummaryRequest, were the summary requested with stream=True
SummaryRequestStreaming(original_prompt, results) ==
    Request("summary",
            MultiToolsPrompt(original_prompt, tool_results_summary(results)),
            tool_results_summary(results), FALSE, TRUE)

\* self.llm.generate_response(multi_tools_prompt, stream=False)
SummaryRequest(original_prompt, results) ==
    Request("summary",
            MultiToolsPrompt(original_prompt, tool_results_summary(results)),
            tool_results_summary(results), FALSE, FALSE)

\* for chunk in self._stream_text(summary_response): yield chunk, with ws
\* the chunks still to come; then the append to the history
StreamSummary(st, ws) ==
    IF ws = <<>>
    THEN Finish(HistoryAppend(st, "assistant",
                              <<"[tool results]", "\n">> \o st.summary_response.text))
    ELSE [Emit(st, "summary_word", "summary", 0, 0, Head(ws))
          EXCEPT !.words = Tail(ws)]

\* Summarise, were tool calls in the answer to the summary request handled
\* like those of the first answer
SummariseRecursing(st, resp) ==
    LET req == SummaryRequest(st.prompt, st.tool_results)
        st1 == [st EXCEPT !.summary_response = resp,
                          !.requests = Append(@, req),
                          !.log = Append(@, LogEvent("request", "summary", 0))]
    IN  CASE resp.type = "text" -> StreamSummary(st1, stream_text(resp.text))
          [] resp.type = "tool_calls" -> handle_tool_call(st1, resp.calls)
          [] OTHER -> Emit(st1, "no_summary", "no_summary", 0, 0, <<>>)

\* Summarise, were the tool results stored when no summary text came
SummariseRecording(st, resp) ==
    LET req == SummaryRequest(st.prompt, st.tool_results)
        st1 == [st EXCEPT !.summary_response = resp,
                          !.requests = Append(@, req),
                          !.log = Append(@, LogEvent("request", "summary", 0))]
    IN  IF resp.type = "text"
        THEN StreamSummary(st1, stream_text(resp.text))
        ELSE HistoryAppend(Emit(st1, "no_summary", "no_summary", 0, 0, <<>>),
                           "assistant", <<"[tool results]", "\n">>)

\* after the "[reply]" marker: the summary request and what follows it
Summarise(st, resp) ==
    LET req == SummaryRequest(st.prompt, st.tool_results)
        st1 == [st EXCEPT !.summary_response = resp,
                          !.requests = Append(@, req),
                          !.log = Append(@, LogEvent("request", "summary", 0))]
    IN  IF resp.type = "text"
        THEN StreamSummary(st1, stream_text(resp.text))
        ELSE Emit(st1, "no_summary", "no_summary", 0, 0, <<>>)

----------------------------------------------------------------------------
\* ChatAgent.run, from one yield to the next.

\* Step8, were it to keep the last chunk only
Step8LastChunk(st) ==
    Finish(IF st.full_response # <<>>
           THEN HistoryAppend(st, "assistant",
                              st.full_response[Len(st.full_response)])
           ELSE st)

\* step 8: if full_response: append "".join(full_response); then the end
Step8(st) ==
    Finish(IF st.full_response # <<>>
           THEN HistoryAppend(st, "assistant", Concat(st.full_response))
           ELSE st)

\* OnError, were it to store the error text as the assistant's message
OnErrorAppending(st) ==
    HistoryAppend(Emit(st, "error", "error", 0, 0, <<"error:">> \o st.response.error),
                  "assistant", <<"error:">> \o st.response.error)

\* step 5: the response is {"error": ...}
OnError(st) == Emit(st, "error", "error", 0, 0, <<"error:">> \o st.response.error)

\* for i, resp in enumerate(response["multi_responses"]) from answer idx,
\* then the append to the history
MultiLoop(st, idx) ==
    LET answers == st.response.answers
    IN  IF idx > Len(answers)
        THEN Finish(HistoryAppend(st, "assistant",
                                  JoinWith(answers, <<"\n", "\n">>)))
        ELSE [Emit(st, "multi", "multi", idx, Len(answers), answers[idx])
              EXCEPT !.pos = idx]

\* OnStreamError, were the loop to go on after the error chunk
OnStreamErrorContinuing(st, chunk) ==
    Emit(st, "content", "stream_error", 0, 0, <<"error:">> \o chunk.v)

\* the chunk is {"error": ...}: yield the error text; a return follows
OnStreamError(st, chunk) ==
    Emit(st, "stream_error", "stream_error", 0, 0, <<"error:">> \o chunk.v)

\* OnStreamException, were it to report the failure whatever was collected
OnStreamExceptionForgetting(st) ==
    Emit(st, "stream_exception", "generation_error", 0, 0, <<"generation failed">>)

\* the except branch of step 7: the collected text as one chunk, or the
\* failure notice when nothing was collected
OnStreamException(st) ==
    IF st.full_response # <<>>
    THEN Emit(st, "stream_exception", "collected", 0, 0, Concat(st.full_response))
    ELSE Emit(st, "stream_exception", "generation_error", 0, 0,
              <<"generation failed">>)

RECURSIVE StreamLoop(_)
\* step 7, "for chunk in response" from the item after st.pos, inside the
\* try
StreamLoop(st) ==
    IF st.pos >= Len(st.response.items) THEN Step8(st)
    ELSE LET chunk == st.response.items[st.pos + 1]
             st1 == [st EXCEPT !.pos = @ + 1]
         IN  CASE chunk.k = "raise" -> OnStreamException(st1)
               [] chunk.k = "error" -> OnStreamError(st1, chunk)
               [] chunk.k = "tool_calls" -> handle_tool_call(st1, chunk.calls)
               [] OTHER ->
                     IF chunk.v # <<>>
                     THEN [Emit(st1, "content", "content", 0, 0, chunk.v)
                           EXCEPT !.full_response = Append(@, chunk.v)]
                     ELSE StreamLoop(st1)

\* OnText, were it to treat the empty text like any other
OnTextUnchecked(st) ==
    LET content == IF st.response.type = "text" THEN st.response.text ELSE NoneText
    IN  [Emit(st, "text", "text", 0, 0, content) EXCEPT !.full_response = <<content>>]

\* the else branch of step 7: a str, or str(response) of anything else
OnText(st) ==
    LET content == IF st.response.type = "text" THEN st.response.text ELSE NoneText
    IN  IF content = <<>>
        THEN Emit(st, "fallback", "fallback", 0, 0, <<>>)
        ELSE [Emit(st, "text", "text", 0, 0, content)
              EXCEPT !.full_response = <<content>>]

\* steps 5 to 7: what run does with the response, up to its first yield
Dispatch(st) ==
    CASE st.response.type = "error" -> OnError(st)
      [] st.response.type = "tool_calls" -> handle_tool_call(st, st.response.calls)
      [] st.response.type = "multi_responses" -> MultiLoop(st, 1)
      [] st.response.type = "stream" -> StreamLoop(st)
      [] OTHER -> OnText(st)

\* steps 1 to 4 of run(p): the append of the user message, full_context,
\* the first generation request
Begin(st, p, o) ==
    LET history == Append(st.conversation_history, Message("user", p))
        req == Request("first", FullContext(history), <<>>, TRUE, TRUE)
    IN  [st EXCEPT
            !.conversation_history = history,
            !.prompt = p,
            !.response = o.response,
            !.pos = 0, !.full_response = <<>>, !.tool_calls = <<>>, !.i = 0,
            !.tool_args = PyDict(<<>>), !.entry = NoEntry, !.tool_results = <<>>,
            !.summary_response = NoResp, !.words = <<>>,
            !.out = <<>>,
            !.log = <<LogEvent("request", "first", 0)>>,
            !.requests = <<req>>,
            !.h0 = st.conversation_history,
            !.reply_calls = o.reply_calls,
            !.http = o.http,
            !.turns = @ + 1]

----------------------------------------------------------------------------
\* The actions: the call of run and the resumptions of its generator.

\* agent.run(p) and the first next() on the generator
Run ==
    /\ pc = "idle"
    /\ turns < MaxTurns
    /\ \E p \in Prompts, o \in FirstOutcomes[provider] :
          Commit(Dispatch(Begin(Cur, p, o)))

\* next() at a yield that a return follows (lines 160, 286, 319, 349, 381)
ResumeReturn ==
    /\ pc \in {"no_tool_calls", "no_summary", "error", "stream_error", "fallback"}
    /\ Commit(Finish(Cur))

\* next() at the tool-name chunk (line 176)
ResumeToolHead ==
    /\ pc = "tool_head"
    /\ Commit(DecodeArguments(Cur))

\* next() at the arguments chunk (line 186)
ResumeToolArgs ==
    /\ pc = "tool_args"
    /\ \E raises \in BOOLEAN : Commit(ExecuteCall(Cur, raises))

\* next() at the result chunk or the error chunk (lines 194, 204)
ResumeToolResult ==
    /\ pc \in {"tool_error", "tool_result"}
    /\ Commit(AfterExecution(Cur))

\* next() at the separator (line 215)
ResumeSeparator ==
    /\ pc = "separator"
    /\ Commit(ToolLoop(Cur, i + 1))

\* next() at the chunk of an except branch (lines 220, 231)
ResumeToolFailure ==
    /\ pc \in {"parse_error", "exec_error"}
    /\ Commit(AfterFailure(Cur))

\* next() at the "[reply]" marker (line 241)
ResumeReplyMarker ==
    /\ pc = "reply_marker"
    /\ \E resp \in SummaryOutcomes[provider] : Commit(Summarise(Cur, resp))

\* next() at a chunk of the summary (line 279)
ResumeSummaryWord ==
    /\ pc = "summary_word"
    /\ Commit(StreamSummary(Cur, words))

\* next() at one of several answers (line 333)
ResumeMulti ==
    /\ pc = "multi"
    /\ Commit(MultiLoop(Cur, pos + 1))

\* next() at a content chunk of the stream (line 362)
ResumeContent ==
    /\ pc = "content"
    /\ Commit(StreamLoop(Cur))

\* next() at the chunk of the except branch of step 7 (lines 368, 370)
ResumeStreamException ==
    /\ pc = "stream_exception"
    /\ Commit(Step8(Cur))

\* next() at the chunk of a plain text response (line 386)
ResumeText ==
    /\ pc = "text"
    /\ Commit(Step8(Cur))

Next ==
    \/ Run
    \/ ResumeReturn
    \/ ResumeToolHead
    \/ ResumeToolArgs
    \/ ResumeToolResult
    \/ ResumeSeparator
    \/ ResumeToolFailure
    \/ ResumeReplyMarker
    \/ ResumeSummaryWord
    \/ ResumeMulti
    \/ ResumeContent
    \/ ResumeStreamException
    \/ ResumeText

Spec == Init /\ [][Next]_vars

\* next() on the generator of run, at whichever yield it is suspended
Resume ==
    \/ ResumeReturn
    \/ ResumeToolHead
    \/ ResumeToolArgs
    \/ ResumeToolResult
    \/ ResumeSeparator
    \/ ResumeToolFailure
    \/ ResumeReplyMarker
    \/ ResumeSummaryWord
    \/ ResumeMulti
    \/ ResumeContent
    \/ ResumeStreamException
    \/ ResumeText

\* The caller consumes the generator to its end ("for chunk in
\* agent.run(prompt)"): a suspended generator is resumed in the end.  This
\* is the weak fairness of Resume, WF_vars(Resume), with ENABLED
\* <<Resume>>_vars written as the state predicate it equals: the generator
\* is suspended (every yield of run is followed by code, and every
\* resumption adds to log or ends the turn).
Consumed == []<>(pc = "idle") \/ []<><<Resume>>_vars

\* the agent whose caller consumes every generator to its end.  The tool
\* bodies return and the generation requests are answered, since every
\* action is one resumption up to the next yield.
FairSpec == Init /\ [][Next]_vars /\ Consumed

----------------------------------------------------------------------------
\* The caller that stops consuming: it leaves its loop over run(prompt) or
\* calls close() on the generator.  The generator is never resumed, or
\* GeneratorExit is raised at the yield where it is suspended; run and
\* _handle_tool_call have no finally block, and the only try around a
\* yield catches Exception (agent.py 343-364), which GeneratorExit is not:
\* no statement of the generator runs any more.

\* Close, were the text collected so far stored when the generator is
\* closed
CloseStoring ==
    /\ pc # "idle"
    /\ Commit(Finish(HistoryAppend(
          [Cur EXCEPT !.log = Append(@, LogEvent("close", pc, 0))],
          "assistant", Concat(full_response))))

\* the caller drops or closes the generator at the yield it is suspended at
Close ==
    /\ pc # "idle"
    /\ Commit(Finish([Cur EXCEPT !.log = Append(@, LogEvent("close", pc, 0))]))

CancelNext == Next \/ Close

\* the agent whose caller may stop consuming at any yield
CancelSpec == Init /\ [][CancelNext]_vars

----------------------------------------------------------------------------
\* _execute_tool on its own, for every tool name and every argument dict
\* json.loads can hand to it.

MaxArgs == 2

\* the dicts of at most MaxArgs keys, in every insertion order; the values
\* are two strings and a number
ArgMaps ==
    {d \in SeqsUpTo({"city", "CITY", "prompt", "origin", "ORIGIN", "target",
                     "unit", "q"} \X {"bj", "sh", "1"}, MaxArgs) :
        \A a, b \in 1..Len(d) : a # b => d[a][1] # d[b][1]}

\* an agent about to call self._execute_tool(tool_name, tool_args)
ToolInit ==
    /\ provider = "openai_compatible"
    /\ AgentInit
    /\ execute_tool \in
          {Execution("called", t, a, FALSE, NoOutcome) :
              t \in tools \cup {"calculator"}, a \in ArgMaps}
    /\ method_call = NoCall
    /\ peer = Cur

\* self._execute_tool(tool_name, tool_args), the tool body raising or not
CallExecuteTool ==
    /\ execute_tool.state = "called"
    /\ \E raises \in BOOLEAN :
          execute_tool' =
              Execution("returned", execute_tool.tool_name, execute_tool.tool_args,
                        raises,
                        ExecuteTool(execute_tool.tool_name, execute_tool.tool_args,
                                    raises))
    /\ UNCHANGED <<agent_vars, method_call, peer>>

ToolSpec == ToolInit /\ [][CallExecuteTool]_vars

----------------------------------------------------------------------------
\* Two ChatAgent instances in one process.  Every field run and
\* _handle_tool_call touch is an attribute that ChatAgent.__init__ sets on
\* self (agent.py 16-27) or a local of the generator; the module has no
\* global and no class attribute.  The second instance is the frame peer.

\* the turns each of the two agents takes
PairTurns == 2

\* the adapters of the two agents
PairProviders == {"anthropic", "openrouter"}

\* what the user of the second agent types
PeerPrompts == {<<"yo">>}

\* the frame of an agent after ChatAgent.__init__
Fresh ==
    [conversation_history |-> <<>>, pc |-> "idle", prompt |-> <<>>,
     response |-> NoResp, pos |-> 0, full_response |-> <<>>,
     tool_calls |-> <<>>, i |-> 0, tool_args |-> PyDict(<<>>),
     entry |-> NoEntry, tool_results |-> <<>>, summary_response |-> NoResp,
     words |-> <<>>, out |-> <<>>, log |-> <<>>, requests |-> <<>>,
     h0 |-> <<>>, reply_calls |-> <<>>, http |-> <<>>, turns |-> 0]

\* the frames one step of an agent leads to from the frame st: run(p) and
\* the first next() when no generator is suspended and fewer than max
\* turns were taken, else next() at the yield st.pc (the actions Run and
\* Resume..., on a frame)
AgentSteps(st, prov, prompts, max) ==
    CASE st.pc = "idle" ->
            IF st.turns < max
            THEN {Dispatch(Begin(st, p, o)) : p \in prompts, o \in FirstOutcomes[prov]}
            ELSE {}
      [] st.pc \in {"no_tool_calls", "no_summary", "error", "stream_error",
                    "fallback"} -> {Finish(st)}
      [] st.pc = "tool_head" -> {DecodeArguments(st)}
      [] st.pc = "tool_args" -> {ExecuteCall(st, raises) : raises \in BOOLEAN}
      [] st.pc \in {"tool_error", "tool_result"} -> {AfterExecution(st)}
      [] st.pc = "separator" -> {ToolLoop(st, st.i + 1)}
      [] st.pc \in {"parse_error", "exec_error"} -> {AfterFailure(st)}
      [] st.pc = "reply_marker" ->
            {Summarise(st, resp) : resp \in SummaryOutcomes[prov]}
      [] st.pc = "summary_word" -> {StreamSummary(st, st.words)}
      [] st.pc = "multi" -> {MultiLoop(st, st.pos + 1)}
      [] st.pc = "content" -> {StreamLoop(st)}
      [] st.pc \in {"stream_exception", "text"} -> {Step8(st)}
      [] OTHER -> {}

PairInit ==
    /\ provider \in PairProviders
    /\ AgentInit
    /\ execute_tool = Execution("none", "", <<>>, FALSE, NoOutcome)
    /\ method_call = NoCall
    /\ peer = Cur

\* a step of the first agent: agent.run(p) or next() on its generator
AgentStep ==
    \E nx \in AgentSteps(Cur, provider, Prompts, PairTurns) : Commit(nx)

\* PeerStep, were conversation_history an attribute of the class
PeerStepShared ==
    \E nx \in AgentSteps([peer EXCEPT !.conversation_history = conversation_history],
                          provider, PeerPrompts, PairTurns) :
        /\ peer' = nx
        /\ conversation_history' = nx.conversation_history
        /\ UNCHANGED <<provider, pc, prompt, response, pos, full_response,
                       tool_calls, i, tool_args, entry, tool_results,
                       summary_response, words, out, log, requests, h0,
                       reply_calls, http, turns, execute_tool, method_call>>

\* a step of the second agent: peer.run(p) or next() on its generator
PeerStep ==
    \E nx \in AgentSteps(peer, provider, PeerPrompts, PairTurns) :
        /\ peer' = nx
        /\ UNCHANGED <<agent_vars, execute_tool, method_call>>

PairNext == AgentStep \/ PeerStep

\* the turns of the two agents, interleaved at their yields in every way
PairSpec == PairInit /\ [][PairNext]_vars

----------------------------------------------------------------------------
\* The other methods on their own, each for every input of a bounded set:
\* Tool.parameters, from_config, _stream_text, _split_multiple_responses,
\* stream_response, _extract_tool_calls.

\* Tool.parameters (tools/tool.py 32-59): inspect.signature(self.execute)
\* is taken of the bound method, so self is not in it; the loop runs over
\* list(sig.parameters.items())[1:]
parameters(tool) ==
    LET sig == Signature(tool)
        rest == IF sig = <<>> THEN <<>> ELSE Tail(sig)
        NoDefault(p) == ~p.has_default
        req == SelectSeq(rest, NoDefault)
    IN  [type |-> "object",
         properties |-> [n \in 1..Len(rest) |-> rest[n].name],
         required |-> [n \in 1..Len(req) |-> req[n].name]]

\* from_config(config) of every adapter, followed by __init__: env is the
\* value of the adapter's environment variable ("unset": os.getenv falls
\* back to its second argument), api_key is config.get("api_key") ("None":
\* the key is absent); a string set in the environment, the empty one
\* included, is what os.getenv returns
from_config(input) ==
    LET api_key == IF input.env = "unset" THEN input.api_key ELSE input.env
    IN  IF api_key \in {"None", ""} \/ api_key = "use_env_variable"
        THEN [raised |-> "ValueError", api_key |-> "None"]
        ELSE [raised |-> "", api_key |-> api_key]

\* the longest text handed to _stream_text
MaxText == 5

\* the texts of letters, full stops and spaces
Texts == SeqsUpTo({"a", "b", ".", " "}, MaxText)

\* the longest text handed to _split_multiple_responses symbol by symbol
MaxSplitText == 6

\* the texts of a marker, a word and line feeds, and the texts of 1 to
\* MaxParagraphs + 2 one-word paragraphs
SplitTexts ==
    SeqsUpTo({"Q1:", "a", "\n"}, MaxSplitText)
    \cup {[k \in 1..(3 * n - 2) |-> IF k % 3 = 1 THEN "a" ELSE "\n"] :
             n \in 1..(MaxParagraphs + 2)}

\* self._split_multiple_responses(content) of the adapter p: the one of
\* BaseProvider unless the adapter defines its own
SplitOf(p, content) ==
    IF p = "openrouter" THEN openrouter_split_multiple_responses(content)
    ELSE split_multiple_responses(content)

\* the most events of a streamed reply read on its own
MaxStream == 3

\* the event streams of two different content deltas, a line that is no
\* JSON, a tool-call delta, the "[DONE]" line and a failure while reading
EventStreams ==
    SeqsUpTo({ContentEv, Event("content", <<"b">>, <<>>, FALSE), BadEv, ToolEv,
              DoneEv, RaiseEv}, MaxStream)

\* the Stream the adapter p makes of the events of a 200 reply
StreamOf(p, events) ==
    IF p = "anthropic"
    THEN StreamResp(AnthropicWalk(events), AnthropicReturn(events))
    ELSE stream_response(Sse("ok", events))

\* the tool-call lists of a reply: calls with and without an id, and a
\* call without a name
ReplyCallLists ==
    SeqsUpTo({GoodCall, CaseCall, MissingCall,
              ToolCall("", "translation", <<"{", "}">>),
              ToolCall("call_z", "", <<"{", "}">>)}, MaxCalls + 1)

\* The deltas of a streamed reply of the chat completions API that holds a
\* tool call: the first delta of a call carries its id, its name and the
\* first piece of its arguments; the later ones carry a further piece and
\* neither id nor name; the chunk that ends the reply has finish_reason
\* "tool_calls" and either a last piece or no tool_calls at all.
HeadDelta == Event("tool", <<>>, <<ToolCall("call_a", "weather", <<"{">>)>>, FALSE)
PieceDelta == Event("tool", <<>>, <<ToolCall("", "", <<"city", ":", "bj">>)>>, FALSE)
LastPieceDelta == Event("tool", <<>>, <<ToolCall("", "", <<"}">>)>>, TRUE)
EndDelta == Event("null_tool", <<>>, <<>>, TRUE)

\* the streamed replies OpenaiProvider reads on its own: content deltas,
\* the deltas of a tool call in pieces, a tool call whole in one delta
\* that ends the reply, and a failure while reading
DeltaStreams ==
    SeqsUpTo({ContentEv, Event("content", <<"b">>, <<>>, FALSE), HeadDelta,
              PieceDelta, LastPieceDelta, EndDelta, ToolFinEv, RaiseEv}, MaxStream)

\* what the method returns for the input
Result(fn, input) ==
    CASE fn = "parameters" -> parameters(input)
      [] fn = "from_config" -> from_config(input)
      [] fn = "_stream_text" -> stream_text(input)
      [] fn = "_split_multiple_responses" -> SplitOf(input.provider, input.content)
      [] fn = "stream_response" -> StreamOf(input.provider, input.events)
      [] fn = "_extract_tool_calls" -> extract_tool_calls(input.layout, input.tool_calls)
      [] fn = "generate_response" -> OpenaiStream(Sse("ok", input.events))
      [] OTHER -> <<>>

\* the calls made
MethodCalls ==
    {Called("parameters", t) : t \in tools}
    \cup {Called("from_config", [provider |-> p, env |-> e, api_key |-> k]) :
             p \in Providers,
             e \in {"unset", "", "use_env_variable", "sk-env"},
             k \in {"None", "", "use_env_variable", "sk-cfg"}}
    \cup {Called("_stream_text", t) : t \in Texts}
    \cup {Called("_split_multiple_responses", [provider |-> p, content |-> t]) :
             p \in {"anthropic", "openai_compatible", "openrouter"},
             t \in SplitTexts}
    \cup {Called("stream_response", [provider |-> p, events |-> ev]) :
             p \in {"anthropic", "openai_compatible"}, ev \in EventStreams}
    \cup {Called("_extract_tool_calls", [layout |-> l, tool_calls |-> c]) :
             l \in {"dict", "sdk"}, c \in ReplyCallLists}
    \cup {Called("generate_response", [provider |-> "openai", events |-> ev]) :
             ev \in DeltaStreams}

MethodInit ==
    /\ provider = "openai_compatible"
    /\ AgentInit
    /\ execute_tool = Execution("none", "", <<>>, FALSE, NoOutcome)
    /\ method_call \in MethodCalls
    /\ peer = Cur

\* the method returns
MethodReturns ==
    /\ method_call.state = "called"
    /\ method_call' = [method_call EXCEPT !.state = "returned",
                                          !.output = Result(method_call.fn, method_call.input)]
    /\ UNCHANGED <<agent_vars, execute_tool, peer>>

MethodSpec == MethodInit /\ [][MethodReturns]_vars

----------------------------------------------------------------------------
\* Vocabulary of the properties, over the history variables of one turn.

Happened(e, kinds, idx) ==
    \E n \in 1..Len(log) : log[n].e = e /\ log[n].k \in kinds /\ log[n].i = idx

HappenedBefore(e, kinds, idx, n) ==
    \E m \in 1..(n - 1) : log[m].e = e /\ log[m].k \in kinds /\ log[m].i = idx

\* the kinds of chunk that carry text of the model's reply to the first
\* request, and the kinds that end the handling of one tool call
ContentKinds == {"content", "collected", "text", "multi"}
ResultKinds == {"tool_result", "tool_error", "parse_error", "exec_error"}
ExecuteKinds == {"returned", "raised", "not_invoked"}

SummaryRequests ==
    {n \in 1..Len(log) : log[n].e = "request" /\ log[n].k = "summary"}

\* a turn is over
TurnDone == pc = "idle" /\ turns > 0

\* a turn whose first response is the ToolCalls variant with some call
ToolCallsTurn == response.type = "tool_calls" /\ response.calls # <<>>

\* the loop of _handle_tool_call has left call j behind
Past(j) == i > j \/ pc \in {"reply_marker", "summary_word", "no_summary", "idle"}

\* the raw arguments of call j are no JSON text or decode to no JSON object
BadArguments(j) == JsonLoads(tool_calls[j].arguments).t # "dict"

\* before position n of the log the caller has the chunks of call m in
\* order (tool name; arguments, when they decoded to a dict; result or
\* error) and the result of call m is in tool_results
CallDone(m, n) ==
    \E a, b, c \in 1..(n - 1) :
        /\ a < b /\ b < c
        /\ log[a] = LogEvent("yield", "tool_head", m)
        /\ log[b].e = "yield" /\ log[b].k \in ResultKinds /\ log[b].i = m
        /\ log[c].e = "record" /\ log[c].i = m
        /\ ~BadArguments(m) =>
              \E x \in (a + 1)..(b - 1) : log[x] = LogEvent("yield", "tool_args", m)

----------------------------------------------------------------------------
\* The properties.

\* C1 (as stated): when the first generation request of a turn returns an
\* Error response, the turn emits exactly one chunk, the error chunk,
\* executes no tool, and the conversation history after the turn equals
\* the history before run was called.
C1_HistoryAsBeforeRun ==
    (TurnDone /\ response.type = "error") =>
        /\ Len(out) = 1 /\ out[1].k = "error"
        /\ \A n \in 1..Len(log) : log[n].e # "execute"
        /\ conversation_history = h0

\* C1 (amended): when the first generation request of a turn returns an
\* Error response, the turn emits exactly one chunk, the error chunk with
\* the error text, executes no tool and issues no second request, and the
\* conversation history during and after the turn is the history before
\* run was called followed by the user's message: the Error branch itself
\* appends nothing.
C1_ErrorTurn ==
    (turns > 0 /\ response.type = "error") =>
        /\ pc \in {"error", "idle"}
        /\ out = <<Chunk("error", 0, 0, <<"error:">> \o response.error)>>
        /\ \A n \in 1..Len(log) : log[n].e # "execute"
        /\ Len(requests) = 1
        /\ conversation_history = Append(h0, Message("user", prompt))

\* an Error turn that is over, in a conversation with an earlier exchange
C1_Witness ==
    /\ TurnDone /\ response.type = "error"
    /\ \E n \in 1..Len(h0) : h0[n].role = "assistant"

\* C2: for every adapter and every generate call with the agent's handling
\* of it: when a tool call of the reply is handled (its name chunk is
\* delivered, it is executed, or the empty-list notice is delivered), no
\* chunk with text of that reply is delivered in the turn, before or after;
\* and for the summary request, whose response is never taken as tool
\* calls: no tool is reported or executed after it, and a ToolCalls
\* response to it delivers no summary text.
C2_ToolCallsExcludeContent ==
    /\ ~(/\ \E n \in 1..Len(out) : out[n].k \in ContentKinds
         /\ \E n \in 1..Len(log) :
               \/ log[n].e = "execute"
               \/ log[n].e = "yield" /\ log[n].k \in {"tool_head", "no_tool_calls"})
    /\ \A n \in SummaryRequests : \A x \in (n + 1)..Len(log) :
          /\ log[x].e # "execute"
          /\ log[x].k # "tool_head"
    /\ summary_response.type = "tool_calls" =>
          \A n \in 1..Len(out) : out[n].k # "summary"

\* a streamed reply with a content delta, then a tool-call delta: the
\* content was delivered and the turn is over
C2_Witness ==
    /\ TurnDone /\ response.type = "stream" /\ reply_calls # <<>>
    /\ \E n \in 1..Len(out) : out[n].k = "content"

\* C3 (as stated): for every adapter and for stream requested or not:
\* whenever the model's reply contains a non-empty tool-call list, generate
\* returns the ToolCalls variant with one call per call of the reply, in
\* order, with its name and arguments; a tool call of the reply is never
\* dropped by returning a Stream or Text instead.
C3_ToolCallsNeverDropped ==
    (turns > 0 /\ provider # "siliconflow" /\ reply_calls # <<>>) =>
        /\ response.type = "tool_calls"
        /\ Len(response.calls) = Len(reply_calls)
        /\ \A j \in 1..Len(reply_calls) :
              /\ response.calls[j].name = reply_calls[j].name
              /\ response.calls[j].arguments = reply_calls[j].arguments

\* a streamed reply that carries a tool call and is handed over as a Stream
C3_Witness ==
    /\ turns > 0 /\ provider = "anthropic" /\ reply_calls # <<>>
    /\ response.type = "stream"

\* C4: in a ToolCalls turn the calls are handled one after the other in
\* the order of the reply: every call is executed at most once and in
\* increasing order, and before call j gets its name chunk, before it is
\* executed, and before the summary request is issued, the caller has
\* received the chunks of every earlier call (tool name, arguments when
\* they decoded to a JSON object, result or error, in this order) and the
\* result of every earlier call has been recorded.
C4_SequentialToolCalls ==
    \A n \in 1..Len(log) :
        /\ log[n].e = "execute" =>
              /\ \A m \in 1..(log[n].i - 1) : CallDone(m, n)
              /\ HappenedBefore("yield", {"tool_head"}, log[n].i, n)
              /\ HappenedBefore("yield", {"tool_args"}, log[n].i, n)
              /\ \A x \in 1..(n - 1) : log[x].e = "execute" => log[x].i < log[n].i
        /\ log[n] \in {LogEvent("yield", "tool_head", j) : j \in 1..Len(tool_calls)} =>
              \A m \in 1..(log[n].i - 1) : CallDone(m, n)
        /\ n \in SummaryRequests =>
              \A m \in 1..Len(tool_calls) : CallDone(m, n)

\* two calls were executed and the summary request was issued
C4_Witness ==
    /\ ToolCallsTurn /\ SummaryRequests # {}
    /\ Happened("execute", {"returned"}, 1)
    /\ Happened("execute", ExecuteKinds, 2)

\* a call ended in failure: it never reached the tool body, or the tool
\* body raised
CallFailed(j) == ~Happened("execute", {"returned"}, j)

\* C5: when the summary request is issued in a ToolCalls turn, its prompt
\* is built from exactly one entry per tool call of the reply, in reply
\* order; entry j carries the number j, the name of call j, its arguments
\* and its result, and it carries the failure marker exactly when call j
\* failed (arguments not decodable, missing parameters, unknown tool, tool
\* exception); the prompt contains every entry, in order.
C5_SummaryPromptComplete ==
    \A r \in 1..Len(requests) : requests[r].kind = "summary" =>
        LET req == requests[r] IN
        /\ Len(req.summary) = Len(tool_calls)
        /\ Len(tool_results) = Len(tool_calls)
        /\ \A j \in 1..Len(tool_calls) :
              /\ Head(req.summary[j]) = ToolLabel(j)
              /\ tool_results[j].name = tool_calls[j].name
              /\ tool_results[j].id = tool_calls[j].id
              /\ Contains(req.summary[j], tool_calls[j].name)
              /\ HasInfix(req.summary[j], JsonDumps(tool_results[j].args))
              /\ HasInfix(req.summary[j], tool_results[j].result)
              /\ Contains(req.summary[j], "(failed)") <=> CallFailed(j)
              /\ tool_results[j].success <=> ~CallFailed(j)
        /\ HasInfix(req.prompt, JoinWith(req.summary, <<"\n", "====", "\n">>))
        /\ HasInfix(req.prompt, prompt)

\* the summary request of a turn with a failed call followed by a
\* successful one
C5_Witness ==
    /\ \E r \in 1..Len(requests) : requests[r].kind = "summary"
    /\ Len(tool_calls) = 2 /\ CallFailed(1) /\ ~CallFailed(2)

\* C6: in a ToolCalls turn the second generation request is issued at
\* most once while the turn runs and exactly once when the turn is over;
\* it is issued after the result of every call of the reply has been
\* recorded, it is the only request besides the first, it asks for no
\* stream, and no tool is executed after it.
C6_OneSummaryRequest ==
    ToolCallsTurn =>
        /\ Cardinality(SummaryRequests) <= 1
        /\ TurnDone => Cardinality(SummaryRequests) = 1
        /\ Len(requests) = 1 + Cardinality(SummaryRequests)
        /\ \A r \in 2..Len(requests) :
              requests[r].kind = "summary" /\ ~requests[r].stream
        /\ \A n \in SummaryRequests :
              /\ \A m \in 1..Len(response.calls) :
                    HappenedBefore("record", {"ok", "failed"}, m, n)
              /\ \A x \in (n + 1)..Len(log) : log[x].e # "execute"

\* a finished turn of two calls whose summary request was answered with
\* tool calls
C6_Witness ==
    /\ TurnDone /\ ToolCallsTurn /\ Len(response.calls) = 2
    /\ summary_response.type = "tool_calls"

\* C7: a call whose raw arguments are no valid JSON, or decode to
\* something that is no JSON object, never reaches _execute_tool; once the
\* loop has left it behind it is recorded as a failed result under its
\* name, the next call of the reply (if any) has got its name chunk, and
\* the turn ends with the summary request issued and one result per call.
C7_BadArgumentsRecorded ==
    \A j \in 1..Len(tool_calls) : BadArguments(j) =>
        /\ ~Happened("execute", ExecuteKinds, j)
        /\ Past(j) =>
              /\ Len(tool_results) >= j
              /\ ~tool_results[j].success
              /\ tool_results[j].name = tool_calls[j].name
              /\ j < Len(tool_calls) => Happened("yield", {"tool_head"}, j + 1)
        /\ TurnDone =>
              /\ SummaryRequests # {}
              /\ Len(tool_results) = Len(tool_calls)

\* a finished turn in which each kind of bad arguments was followed by a
\* call that was executed
C7_Witness ==
    /\ TurnDone /\ Len(tool_calls) = 2
    /\ tool_calls[1] \in {BadJsonCall, NonDictCall}
    /\ Happened("execute", {"returned"}, 2)

\* C8: when the body of a tool raises, _execute_tool returns a failure
\* outcome: the caller gets the tool-error chunk, the call is recorded as
\* failed, the next call of the reply (if any) is still handled, and the
\* turn ends with the summary request issued and one result per call.
C8_ToolExceptionCaught ==
    \A n \in 1..Len(log) : log[n] \in {LogEvent("execute", "raised", j) : j \in 1..Len(tool_calls)} =>
        LET j == log[n].i IN
        /\ n < Len(log) /\ log[n + 1] = LogEvent("yield", "tool_error", j)
        /\ pc = "tool_error" /\ i = j => ~entry.success
        /\ Past(j) =>
              /\ Len(tool_results) >= j
              /\ ~tool_results[j].success
              /\ j < Len(tool_calls) => Happened("yield", {"tool_head"}, j + 1)
        /\ TurnDone =>
              /\ SummaryRequests # {}
              /\ Len(tool_results) = Len(tool_calls)

\* a finished turn in which the first tool raised and the second returned
C8_Witness ==
    /\ TurnDone
    /\ Happened("execute", {"raised"}, 1)
    /\ Happened("execute", {"returned"}, 2)

\* C9 (as stated): every ToolCalls turn that runs to completion appends
\* exactly one assistant message to the history, and that message contains
\* the name, the arguments and the result of every tool call and the
\* summary text.
C9_ToolTurnMessage ==
    (TurnDone /\ ToolCallsTurn) =>
        /\ Len(conversation_history) = Len(h0) + 2
        /\ LET m == conversation_history[Len(conversation_history)] IN
           /\ m.role = "assistant"
           /\ HasInfix(m.content, summary_response.text)
           /\ \A j \in 1..Len(tool_results) :
                 /\ Contains(m.content, tool_results[j].name)
                 /\ HasInfix(m.content, JsonDumps(tool_results[j].args))
                 /\ HasInfix(m.content, tool_results[j].result)

\* a finished ToolCalls turn whose summary was delivered
C9_Witness ==
    /\ TurnDone /\ ToolCallsTurn /\ summary_response.type = "text"
    /\ \E n \in 1..Len(out) : out[n].k = "summary"

\* the stream of this turn ended in an error marker or in an exception
StreamFailed ==
    /\ response.type = "stream"
    /\ \E n \in 1..Len(out) :
          out[n].k \in {"stream_error", "collected", "generation_error"}

\* C10 (as stated): in a Stream turn an assistant message is appended only
\* if the stream was consumed to its end without an error marker and
\* without an exception; after a failure in the middle of the stream the
\* history holds no assistant message for the turn.
C10_NoPartialMessage ==
    (turns > 0 /\ StreamFailed) =>
        conversation_history = Append(h0, Message("user", prompt))

\* a finished Stream turn that broke after a content chunk
C10_Witness ==
    /\ TurnDone /\ StreamFailed
    /\ \E n \in 1..Len(out) : out[n].k = "content"

\* a request of the first generate call of this turn met a transport
\* failure: a status that is not 2xx, a body that is no JSON, or an
\* exception of the connection
TransportFailed == \E n \in 1..Len(http) : http[n] # "ok"

\* the response is the Error variant, or a Stream that carries an error
\* marker
SurfacedAsError ==
    \/ response.type = "error"
    \/ /\ response.type = "stream"
       /\ \E n \in 1..Len(response.items) : response.items[n].k = "error"

\* C11 (as stated): a transport failure of any request an adapter makes
\* for a generate call, the request made while the Stream is iterated
\* included, surfaces as an Error value, and no exception crosses the
\* adapter boundary: the Stream the agent iterates never raises.
C11_TransportFailureIsError ==
    turns > 0 =>
        /\ TransportFailed => SurfacedAsError
        /\ \A n \in 1..Len(response.items) : response.items[n].k # "raise"

\* the streaming request of OpenAICompatibleProvider failed with an
\* exception after a good probe, and the exception reached the loop of run
C11_Witness ==
    /\ provider = "openai_compatible" /\ http = <<"ok", "exception">>
    /\ response.type = "stream" /\ pc = "stream_exception"
    /\ out[Len(out)].k = "generation_error"

\* C12 (as stated): within one generate call, once a request of the call
\* was answered with a status that is not 2xx, the adapter issues no
\* further HTTP request for the call.
C12_NoRequestAfterHttpError ==
    \A n \in 1..Len(http) : http[n] = "http_error" => n = Len(http)

\* the probe of OpenAICompatibleProvider was answered with an error status
\* and the streaming request was sent all the same and delivered content
C12_Witness ==
    /\ provider = "openai_compatible" /\ http = <<"http_error", "ok">>
    /\ \E n \in 1..Len(out) : out[n].k = "content"

\* the texts of the chunks the caller got, in the order it got them
Delivered == [n \in 1..Len(out) |-> out[n].v]

\* a Stream turn that is over and whose stream was consumed to its end:
\* every item was a text chunk
StreamCompleted ==
    /\ TurnDone /\ response.type = "stream" /\ pos = Len(response.items)
    /\ \A n \in 1..Len(response.items) : response.items[n].k = "content"

C14_StreamErrorStops ==
    \A n \in 1..Len(out) : out[n].k = "stream_error" =>
        /\ n = Len(out)
        /\ pc \in {"stream_error", "idle"}
        /\ response.type = "stream" /\ pos \in 1..Len(response.items)
        /\ response.items[pos].k = "error"
        /\ out[n].v = <<"error:">> \o response.items[pos].v
        /\ \A m \in 1..(pos - 1) : response.items[m].k = "content"
        /\ \A m \in 1..(n - 1) : out[m].k = "content"

\* a finished turn whose stream had another item after the error marker
C14_Witness ==
    /\ TurnDone /\ response.type = "stream"
    /\ out # <<>> /\ out[Len(out)].k = "stream_error"
    /\ pos < Len(response.items)

\* iterating the stream of this turn raised, at item pos
StreamRaised ==
    /\ turns > 0 /\ response.type = "stream" /\ pos \in 1..Len(response.items)
    /\ response.items[pos].k = "raise"

\* C15: when iterating the Stream raises after k chunks were received
\* (k = pos - 1): for k >= 1 the caller has received the k chunks, in
\* order, and then their concatenation as one more chunk; for k = 0 the
\* caller has received a single chunk, the failure notice.
C15_NothingLostOnException ==
    StreamRaised =>
        /\ pc \in {"stream_exception", "idle"}
        /\ \A m \in 1..(pos - 1) :
              /\ response.items[m].k = "content"
              /\ out[m] = Chunk("content", 0, 0, response.items[m].v)
        /\ Len(out) = pos
        /\ IF pos > 1
           THEN out[pos] = Chunk("collected", 0, 0,
                                 Concat([m \in 1..(pos - 1) |-> response.items[m].v]))
           ELSE out[pos].k = "generation_error"

\* a finished turn whose stream raised after one chunk
C15_Witness == TurnDone /\ StreamRaised /\ pos = 2

\* C16: on a Text response the turn issues no second request and executes
\* no tool; if the text is empty the turn emits exactly the fixed fallback
\* chunk and appends nothing (the history stays the history before the
\* turn with the user's message); otherwise it emits the whole text as
\* exactly one chunk and, when the turn is over, has appended that text as
\* one assistant message.
C16_TextTurn ==
    (turns > 0 /\ response.type = "text") =>
        /\ Len(requests) = 1
        /\ \A n \in 1..Len(log) : log[n].e # "execute"
        /\ IF response.text = <<>>
           THEN /\ pc \in {"fallback", "idle"}
                /\ out = <<Chunk("fallback", 0, 0, <<>>)>>
                /\ conversation_history = Append(h0, Message("user", prompt))
           ELSE /\ pc \in {"text", "idle"}
                /\ out = <<Chunk("text", 0, 0, response.text)>>
                /\ conversation_history =
                      Append(h0, Message("user", prompt))
                      \o (IF pc = "idle"
                          THEN <<Message("assistant", response.text)>>
                          ELSE <<>>)

\* a finished turn with a text, after a turn that appended nothing
C16_Witness ==
    /\ TurnDone /\ response.type = "text" /\ response.text # <<>>
    /\ Len(h0) = 1

----------------------------------------------------------------------------
\* The properties of _execute_tool, over a call of it on its own.

\* the parameters of tool.execute, and those without a default value
Parameters(tool) == {Signature(tool)[n].name : n \in 1..Len(Signature(tool))}
Required(tool) ==
    {Signature(tool)[n].name :
        n \in {m \in 1..Len(Signature(tool)) : ~Signature(tool)[m].has_default}}

Keys(d) == {d[n][1] : n \in 1..Len(d)}

\* _execute_tool has returned from a call that named a registered tool
Returned == execute_tool.state = "returned" /\ execute_tool.tool_name \in tools

\* the required parameters absent from the argument dict as it was passed,
\* and as the repair heuristics left it
MissingBefore == Required(execute_tool.tool_name) \ Keys(execute_tool.tool_args)
MissingAfter == Required(execute_tool.tool_name) \ Keys(execute_tool.args)

\* C17: for every tool and every argument map: if a required parameter is
\* still absent after the two repair heuristics, _execute_tool returns a
\* failure whose message names every parameter still missing and the tool
\* body is not invoked; if all required parameters are present the tool
\* body is invoked.
C17_MissingParametersFail ==
    Returned =>
        IF MissingAfter # {}
        THEN /\ execute_tool.result.error
             /\ ~execute_tool.invoked
             /\ Head(execute_tool.result.v) = "missing required parameters:"
             /\ \A p \in MissingAfter : Contains(Tail(execute_tool.result.v), p)
             /\ \A n \in 2..Len(execute_tool.result.v) :
                   execute_tool.result.v[n] \in MissingAfter
        ELSE execute_tool.invoked

\* a call of the tool with two required parameters that supplied neither
C17_Witness ==
    /\ Returned /\ Cardinality(MissingAfter) = 2
    /\ execute_tool.tool_args # <<>>

\* C18: for a tool with one required parameter p, a call whose only
\* argument has a key that differs from p in letter case only, with any
\* value v, invokes the tool body with exactly {p: v} and returns what the
\* call with the argument {p: v} returns.
C18_CaseInsensitiveRepair ==
    \A p \in Required(execute_tool.tool_name) :
        (/\ Returned
         /\ Required(execute_tool.tool_name) = {p}
         /\ Len(execute_tool.tool_args) = 1
         /\ execute_tool.tool_args[1][1] # p
         /\ Lower(execute_tool.tool_args[1][1]) = Lower(p)) =>
            LET v == execute_tool.tool_args[1][2]
                same == ExecuteTool(execute_tool.tool_name, << <<p, v>> >>,
                                    execute_tool.raises)
            IN  /\ execute_tool.invoked /\ same.invoked
                /\ execute_tool.kwargs = << <<p, v>> >>
                /\ execute_tool.kwargs = same.kwargs
                /\ execute_tool.result = same.result

\* the weather tool called with {"CITY": 1}: a value that is no string, so
\* that only the comparison of the keys can have supplied city
C18_Witness ==
    /\ Returned /\ execute_tool.tool_name = "weather"
    /\ execute_tool.tool_args = << <<"CITY", "1">> >>
    /\ execute_tool.invoked /\ ~execute_tool.raises

\* the string values among the arguments as they were passed
StringValues == SelectSeq(DictValues(execute_tool.tool_args), IsStr)

\* the conditions of single-value inference
InferenceApplies ==
    /\ Cardinality(MissingBefore) = 1
    /\ Cardinality(Required(execute_tool.tool_name)) = 1
    /\ Len(StringValues) = 1

\* C19: the arguments that were passed keep their values; when exactly one
\* parameter is missing, the tool has exactly one required parameter and
\* exactly one argument value is a string, the missing parameter gets that
\* string; in every other case no value is inferred: a key the call adds
\* is a missing parameter that takes the value of an argument whose key
\* equals it up to letter case.
C19_SingleValueInference ==
    Returned =>
        /\ \A n \in 1..Len(execute_tool.tool_args) :
              execute_tool.args[n] = execute_tool.tool_args[n]
        /\ IF InferenceApplies
           THEN \A p \in MissingBefore :
                    /\ DictHas(execute_tool.args, p)
                    /\ DictGet(execute_tool.args, p) = StringValues[1]
                    /\ Keys(execute_tool.args) = Keys(execute_tool.tool_args) \cup {p}
           ELSE \A k \in Keys(execute_tool.args) \ Keys(execute_tool.tool_args) :
                    /\ k \in MissingBefore
                    /\ \E n \in 1..Len(execute_tool.tool_args) :
                          /\ Lower(execute_tool.tool_args[n][1]) = Lower(k)
                          /\ execute_tool.tool_args[n][2] = DictGet(execute_tool.args, k)

\* the weather tool called with a string under an unrelated key and a
\* number: the string became city
C19_Witness ==
    /\ Returned /\ execute_tool.tool_name = "weather"
    /\ execute_tool.tool_args = << <<"unit", "1">>, <<"q", "sh">> >>
    /\ execute_tool.kwargs = << <<"city", "sh">> >>

\* C20: the tool body is invoked with the arguments of the repaired map
\* whose keys are parameters of execute, in their order, and with nothing
\* else; the keys that were dropped cause no failure: the outcome is a
\* failure only if the tool body raised.
C20_OnlySignatureKeys ==
    (Returned /\ execute_tool.invoked) =>
        /\ Keys(execute_tool.kwargs) \subseteq Parameters(execute_tool.tool_name)
        /\ LET Known(kv) == kv[1] \in Parameters(execute_tool.tool_name)
           IN  execute_tool.kwargs = SelectSeq(execute_tool.args, Known)
        /\ execute_tool.result.error <=> execute_tool.raises

\* a call with a key execute does not have, whose tool body returned
C20_Witness ==
    /\ Returned /\ execute_tool.invoked /\ ~execute_tool.result.error
    /\ "q" \in Keys(execute_tool.tool_args)
    /\ "q" \notin Keys(execute_tool.kwargs)

----------------------------------------------------------------------------
\* The claims about methods taken on their own (MethodSpec).

\* the method fn has returned
ReturnedFrom(fn) == method_call.fn = fn /\ method_call.state = "returned"

\* C21: for every tool, the schema of its descriptor lists every parameter
\* of execute and marks as required exactly the parameters without a
\* default, so that its required list is the list of parameters
\* _execute_tool demands.
C21_SchemaMatchesSignature ==
    ReturnedFrom("parameters") =>
        LET sig == Signature(method_call.input)
        IN  /\ method_call.output.properties = [n \in 1..Len(sig) |-> sig[n].name]
            /\ method_call.output.required = required_params(method_call.input)

\* the descriptor of the weather tool requires nothing, _execute_tool
\* demands city
C21_Witness ==
    /\ ReturnedFrom("parameters")
    /\ method_call.input = "weather"
    /\ method_call.output.required = <<>>
    /\ method_call.output.properties = <<>>
    /\ required_params("weather") = <<"city">>

\* a credential an adapter can be built with
Usable(v) == v \notin {"unset", "None", "", "use_env_variable"}

\* C22: construction takes the credential of the environment variable when
\* it is usable, else the configured one when that is usable, and raises
\* exactly when neither is usable.
C22_CredentialFromEitherSource ==
    ReturnedFrom("from_config") =>
        LET input == method_call.input
            made == method_call.output
        IN  IF Usable(input.env)
            THEN made.raised = "" /\ made.api_key = input.env
            ELSE IF Usable(input.api_key)
            THEN made.raised = "" /\ made.api_key = input.api_key
            ELSE made.raised = "ValueError"

\* the variable is set to the empty string and the configuration holds a
\* key: construction raises
C22_Witness ==
    /\ ReturnedFrom("from_config")
    /\ method_call.input.env = ""
    /\ method_call.input.api_key = "sk-cfg"
    /\ method_call.output.raised = "ValueError"

\* the words of the text are separated by single spaces
SingleSpaced(text) ==
    /\ text # <<>>
    /\ text[1] # " " /\ text[Len(text)] # " "
    /\ \A n \in 1..(Len(text) - 1) : ~(text[n] = " " /\ text[n + 1] = " ")

\* C23: for every non-empty text whose words are separated by single
\* spaces, the units _stream_text yields, concatenated in order, are the
\* text, and the units other than a lone space are its words, one each.
C23_RestreamLossless ==
    (ReturnedFrom("_stream_text") /\ SingleSpaced(method_call.input)) =>
        LET units == method_call.output
            IsWord(u) == u # <<" ">>
            said == SelectSeq(units, IsWord)
        IN  /\ Concat(units) = method_call.input
            /\ [n \in 1..Len(said) |-> Strip(said[n])] = SplitWords(method_call.input)

\* a sentence equal to the last one loses the space after it
C23_Witness ==
    /\ ReturnedFrom("_stream_text")
    /\ method_call.input = <<"a", ".", " ", "a", ".">>
    /\ Concat(method_call.output) = <<"a", ".", "a", ".">>

\* C24: for every text and every element e of what the splitter returns
\* for it, the splitter returns <<e>> for e.
C24_SplitIdempotent ==
    ReturnedFrom("_split_multiple_responses") =>
        \A n \in 1..Len(method_call.output) :
            SplitOf(method_call.input.provider, method_call.output[n])
                = <<method_call.output[n]>>

\* an answer cut off at a marker keeps its blank line and is cut again
C24_Witness ==
    /\ ReturnedFrom("_split_multiple_responses")
    /\ method_call.input.provider = "anthropic"
    /\ method_call.input.content = <<"Q1:", "a", "\n", "\n", "a", "Q1:">>
    /\ method_call.output[1] = <<"Q1:", "a", "\n", "\n", "a">>
    /\ Len(split_multiple_responses(method_call.output[1])) = 2

\* no pattern of the adapter has more than one match in the text
NoMarkerSplit(p, content) ==
    FirstPattern(content, IF p = "openrouter" THEN openrouter_patterns
                          ELSE base_patterns) = <<>>

\* C25: when no marker pattern has more than one match, the splitter of
\* every adapter returns the blank-line-delimited paragraphs if there are
\* between 2 and 10 of them and the whole text as one element otherwise.
C25_ParagraphFallback ==
    (/\ ReturnedFrom("_split_multiple_responses")
     /\ NoMarkerSplit(method_call.input.provider, method_call.input.content)) =>
        LET ps == Paragraphs(method_call.input.content)
        IN  method_call.output =
                IF 2 <= Len(ps) /\ Len(ps) <= 10 THEN ps
                ELSE <<method_call.input.content>>

\* eleven paragraphs, split by the splitter of BaseProvider
C25_Witness ==
    /\ ReturnedFrom("_split_multiple_responses")
    /\ method_call.input.provider = "openai_compatible"
    /\ Len(Paragraphs(method_call.input.content)) = 11
    /\ Len(method_call.output) = 11

----------------------------------------------------------------------------
\* The connection of a streamed reply.

\* The connection of the streaming request of the turn's first generation
\* request, for the adapters that post it themselves.  It is open while
\* the Stream is being iterated.  OpenAICompatibleProvider and
\* ModelscopeProvider post inside "with requests.post(...) as response:"
\* in the generator, so the connection is closed when the generator ends
\* or is closed with the frame of run that held it.  AnthropicProvider
\* posts in generate_response and never closes the reply: the connection
\* is released only by iter_lines reading the body to its end, which the
\* break at a tool call and a failure while reading prevent.
connection ==
    IF turns = 0 \/ response.type # "stream"
       \/ provider \notin {"anthropic", "openai_compatible", "modelscope"}
    THEN "none"
    ELSE IF pc \in {"content", "stream_error", "stream_exception"} THEN "open"
    ELSE IF provider = "anthropic" /\ (response.ret # <<>> \/ StreamRaised)
         THEN "open"
         ELSE "closed"

\* C26: for every adapter, once the caller has stopped consuming a Stream,
\* whether at its end or before, the connection opened for it is closed.
C26_ConnectionReleased == TurnDone => connection # "open"

\* the Anthropic stream left at a tool call: the turn is over, the reply
\* was never closed
C26_Witness ==
    /\ TurnDone /\ provider = "anthropic"
    /\ response.type = "stream" /\ response.ret # <<>>
    /\ connection = "open"

\* C27: a line of a streamed reply that is no JSON is skipped: the Stream
\* is the one the reply without that line gives, so the line yields no
\* chunk and no error, and every content event after it is delivered, in
\* order.
C27_MalformedEventSkipped ==
    ReturnedFrom("stream_response") =>
        LET events == method_call.input.events
            WellFormed(e) == e.k # "bad"
            good == SelectSeq(events, WellFormed)
        IN  /\ method_call.output = StreamOf(method_call.input.provider, good)
            /\ (\A n \in 1..Len(events) : events[n].k \in {"content", "bad"}) =>
                   method_call.output.items =
                       [n \in 1..Len(good) |-> ContentItem(good[n].v)]

\* a content delta, a line that is no JSON, another content delta
C27_Witness ==
    /\ ReturnedFrom("stream_response")
    /\ method_call.input.provider = "openai_compatible"
    /\ method_call.input.events = <<ContentEv, BadEv, Event("content", <<"b">>, <<>>, FALSE)>>
    /\ method_call.output.items = <<ContentItem(<<"a">>), ContentItem(<<"b">>)>>

\* C30: _extract_tool_calls returns the tool calls of the reply in the
\* order of the reply (a dict without a function name is left out); each
\* keeps the id the provider supplied and one without an id gets call_<i>,
\* i being its index in the tool-call list of the reply.
C30_OrderAndPositionalIds ==
    ReturnedFrom("_extract_tool_calls") =>
        LET reply == method_call.input.tool_calls
            Kept(n) == method_call.input.layout = "sdk" \/ reply[n].name # ""
            kept == SelectSeq([n \in 1..Len(reply) |-> n], Kept)
        IN  method_call.output =
                [m \in 1..Len(kept) |->
                    ToolCall(IF reply[kept[m]].id = "" THEN CallId(kept[m] - 1)
                             ELSE reply[kept[m]].id,
                             reply[kept[m]].name, reply[kept[m]].arguments)]

\* a call without an id behind a call that is left out and a call with an
\* id: it is returned second and named after its place in the reply
C30_Witness ==
    /\ ReturnedFrom("_extract_tool_calls")
    /\ method_call.input.layout = "dict"
    /\ method_call.input.tool_calls = <<ToolCall("call_z", "", <<"{", "}">>), GoodCall, CaseCall>>
    /\ Len(method_call.output) = 2
    /\ method_call.output[1].id = "call_a"
    /\ method_call.output[2].id = "call_2"

----------------------------------------------------------------------------
\* The phases of a turn.

ToolPhasePcs ==
    {"tool_head", "tool_args", "tool_error", "tool_result", "separator",
     "parse_error", "exec_error"}

\* Idle: no generator of run is suspended; ToolPhase: run is suspended in
\* the loop over the tool calls; Responding: run is suspended at a chunk of
\* the answer.  AwaitingModel is the first generation request, which
\* run sends before its first yield.
Phase ==
    IF pc = "idle" THEN "Idle"
    ELSE IF pc \in ToolPhasePcs THEN "ToolPhase"
    ELSE "Responding"

\* a step from phase to phase along Idle -> AwaitingModel -> (ToolPhase)*
\* -> Responding -> Idle
PhaseStep ==
    /\ Phase = "Idle" =>
          /\ turns' = turns + 1
          /\ log'[1] = LogEvent("request", "first", 0)
    /\ Phase = "ToolPhase" => Phase' \in {"ToolPhase", "Responding"}
    /\ Phase = "Responding" => Phase' \in {"Responding", "Idle"}

\* C28: every turn goes from Idle through the first generation request,
\* the tool phase of each call and the answer back to Idle, and, the
\* caller consuming the chunks, run returns in the end, whatever the
\* response was and whichever calls failed.
C28_TurnTerminates ==
    /\ [][PhaseStep]_vars
    /\ (pc # "idle") ~> (pc = "idle")

\* a turn of two tool calls that both failed is over
C28_Witness ==
    /\ TurnDone
    /\ Len(tool_results) = 2
    /\ \A n \in 1..2 : ~tool_results[n].success

----------------------------------------------------------------------------
\* Two conversations.

\* the texts the users of the two agents typed, as the histories hold them
UserTexts(history) ==
    {history[n].content : n \in {m \in 1..Len(history) : history[m].role = "user"}}

----------------------------------------------------------------------------
\* The order of the two repair heuristics (ToolSpec).

\* the positions of the arguments, as they were passed, whose key equals
\* the parameter p up to letter case
CaseMatches(p) ==
    {n \in 1..Len(execute_tool.tool_args) :
        Lower(execute_tool.tool_args[n][1]) = Lower(p)}

\* C32: when a required parameter is missing from the arguments as they
\* were passed and some argument's key equals it up to letter case, the
\* tool body is invoked with the value of such an argument for that
\* parameter: single-value inference does not put another value in its
\* place.
C32_CaseMatchKept ==
    \A p \in MissingBefore :
        (Returned /\ execute_tool.invoked /\ CaseMatches(p) # {}) =>
            \E n \in CaseMatches(p) :
                DictGet(execute_tool.kwargs, p) = execute_tool.tool_args[n][2]

\* the weather tool called with {"CITY": 1, "q": "sh"}: the comparison of
\* keys gives city the number, whose copy is no string, and the lone string
\* "sh" then takes its place
C32_Witness ==
    /\ Returned /\ execute_tool.tool_name = "weather"
    /\ execute_tool.tool_args = << <<"CITY", "1">>, <<"q", "sh">> >>
    /\ execute_tool.invoked
    /\ execute_tool.kwargs = << <<"city", "sh">> >>

----------------------------------------------------------------------------
\* The argument dict across _execute_tool (Spec).

\* the arguments of call j as the model supplied them, decoded
Supplied(j) == JsonLoads(tool_calls[j].arguments)

\* C36: the arguments recorded in the ToolResult of a call whose arguments
\* decoded to a dict, and those listed for it in the summary prompt, are
\* the arguments the model supplied, whether or not a repair heuristic
\* applied.
C36_ArgumentsAsSupplied ==
    \A j \in 1..Len(tool_results) :
        Supplied(j).t = "dict" =>
            /\ tool_results[j].args = Supplied(j)
            /\ \A n \in 1..Len(requests) :
                  requests[n].kind = "summary" =>
                      requests[n].summary[j]
                          = SummaryEntry(j, [tool_results[j]
                                                EXCEPT !.args = Supplied(j)])

\* a turn whose call supplied {"CITY": "bj"} to the weather tool: the
\* ToolResult and the summary prompt list city as well
C36_Witness ==
    /\ TurnDone /\ Len(tool_results) >= 1
    /\ tool_calls[1] = CaseCall
    /\ tool_results[1].success
    /\ DictHas(tool_results[1].args.d, "city")
    /\ \E n \in 1..Len(requests) :
          /\ requests[n].kind = "summary"
          /\ Contains(requests[n].prompt, "city")

----------------------------------------------------------------------------
\* A call of a tool the registry does not hold (Spec).

\* C39: for a tool call whose name is not in the registry: no tool body is
\* invoked for it; once the loop has left it behind, its ToolResult is
\* recorded as a failure (with the "tool not found" text when its arguments
\* decoded to a dict) and the next call, when there is one, has begun; and
\* once the loop is over every call has its ToolResult and the summary
\* request was sent.
C39_UnknownToolFails ==
    \A j \in 1..Len(tool_calls) :
        tool_calls[j].name \notin tools =>
            /\ ~Happened("execute", {"returned", "raised"}, j)
            /\ Past(j) =>
                  /\ Len(tool_results) >= j
                  /\ tool_results[j].name = tool_calls[j].name
                  /\ ~tool_results[j].success
                  /\ Happened("record", {"failed"}, j)
                  /\ Supplied(j).t = "dict" =>
                        tool_results[j].result
                            = <<"[tool error]", "tool not found:", tool_calls[j].name>>
                  /\ j < Len(tool_calls) => Happened("yield", {"tool_head"}, j + 1)
            /\ pc \in {"summary_word", "no_summary", "idle"} =>
                  /\ Len(tool_results) = Len(tool_calls)
                  /\ Cardinality(SummaryRequests) = 1

\* a finished turn whose reply named an unknown tool and then the weather
\* tool: the first call failed, the second succeeded, the summary was
\* requested
C39_Witness ==
    /\ TurnDone
    /\ tool_calls = <<UnknownCall, GoodCall>>
    /\ Len(tool_results) = 2
    /\ ~tool_results[1].success /\ tool_results[2].success
    /\ Happened("execute", {"not_invoked"}, 1)
    /\ Happened("execute", {"returned"}, 2)
    /\ SummaryRequests # {}

----------------------------------------------------------------------------
\* A summary request that returns no text (Spec).

\* the summary request of the turn was answered with something that is no
\* text
NoSummaryText == SummaryRequests # {} /\ summary_response.type # "text"

\* C38: once the summary request of a turn was answered with something
\* that is no text, the caller's last chunk is the fixed "no summary"
\* notice, it is the only one, the result chunk of every call and the
\* reply marker come before it, no chunk of a summary is emitted, and the
\* history is the history the turn began with plus the user message: no
\* assistant message, no tool result.
C38_NoSummaryNoMessage ==
    NoSummaryText =>
        /\ pc \in {"no_summary", "idle"}
        /\ out # <<>> /\ out[Len(out)].k = "no_summary"
        /\ \A n \in 1..(Len(out) - 1) : out[n].k \notin {"no_summary", "summary"}
        /\ out[Len(out) - 1].k = "reply_marker"
        /\ \A j \in 1..Len(tool_calls) :
              \E n \in 1..(Len(out) - 2) : out[n].k \in ResultKinds /\ out[n].i = j
        /\ conversation_history = Append(h0, Message("user", prompt))

\* a finished turn of two calls, one of which succeeded, whose summary
\* request returned an Error
C38_Witness ==
    /\ TurnDone /\ ToolCallsTurn
    /\ summary_response.type = "error"
    /\ Len(tool_results) = 2 /\ tool_results[1].success
    /\ out[Len(out)].k = "no_summary"
    /\ conversation_history[Len(conversation_history)].role = "user"

----------------------------------------------------------------------------
\* The generation requests and the passes over the tool calls of one turn
\* (Spec).

\* the positions of the log at which event e of call j stands
Events(e, j) == {n \in 1..Len(log) : log[n].e = e /\ log[n].i = j}

\* C37: a turn sends at most two generation requests: the first with
\* tools, and at most one summary request without tools and not streamed.
\* Every tool call of the ToolCalls response is handled in one pass: its
\* name chunk is emitted once, _execute_tool is called for it at most once
\* (once the pass is over: exactly once when its arguments decoded to a
\* dict, never otherwise) and one ToolResult is recorded.  After the
\* summary request nothing is executed, recorded or requested, and the only
\* chunks are those of the summary text or the "no summary" notice,
\* whatever the summary request returned.
C37_TwoRequestsOnePass ==
    /\ Len(requests) <= 2
    /\ \A n \in 1..Len(requests) :
          IF n = 1
          THEN requests[n].kind = "first" /\ requests[n].has_tools
          ELSE /\ requests[n].kind = "summary"
               /\ ~requests[n].has_tools /\ ~requests[n].stream
    /\ \A j \in 1..Len(tool_calls) :
          /\ Cardinality({n \in Events("yield", j) : log[n].k = "tool_head"}) <= 1
          /\ Cardinality(Events("execute", j)) <= 1
          /\ Cardinality(Events("record", j)) <= 1
          /\ Past(j) =>
                /\ Cardinality(Events("record", j)) = 1
                /\ Cardinality(Events("execute", j))
                      = (IF Supplied(j).t = "dict" THEN 1 ELSE 0)
    /\ \A s \in SummaryRequests :
          \A n \in (s + 1)..Len(log) :
              /\ log[n].e = "yield"
              /\ log[n].k \in {"summary", "no_summary"}

\* a finished turn of two calls whose summary request returned tool calls:
\* two requests, two ToolResults, and the "no summary" notice at the end
C37_Witness ==
    /\ TurnDone
    /\ summary_response.type = "tool_calls" /\ summary_response.calls # <<>>
    /\ Len(requests) = 2
    /\ Len(tool_calls) = 2 /\ Len(tool_results) = 2
    /\ Cardinality(Events("execute", 1)) = 1
    /\ out[Len(out)].k = "no_summary"

\* the answer to the summary request is a MultiAnswer: it is not relayed
C37_WitnessMulti ==
    /\ TurnDone /\ summary_response.type = "multi_responses"
    /\ out[Len(out)].k = "no_summary"

----------------------------------------------------------------------------
\* The shape of the history over the turns (Spec).

\* text ends with part
EndsWith(text, part) ==
    /\ Len(text) >= Len(part)
    /\ SubSeq(text, Len(text) - Len(part) + 1, Len(text)) = part

\* the history during and after a turn: what it was when run was called,
\* then the user message of the turn, then at most one assistant message;
\* the first request of the turn was made from a context that ends with the
\* user message; and an assistant message anywhere in the history stands
\* right after a user message
HistoryWellFormed ==
    /\ turns = 0 => conversation_history = <<>>
    /\ turns > 0 =>
          /\ Len(conversation_history) \in {Len(h0) + 1, Len(h0) + 2}
          /\ SubSeq(conversation_history, 1, Len(h0)) = h0
          /\ conversation_history[Len(h0) + 1] = Message("user", prompt)
          /\ Len(conversation_history) = Len(h0) + 2 =>
                conversation_history[Len(h0) + 2].role = "assistant"
          /\ requests # <<>>
          /\ EndsWith(requests[1].prompt, <<"user", ":", " ">> \o prompt)
    /\ \A n \in 1..Len(conversation_history) :
          conversation_history[n].role = "assistant" =>
              n > 1 /\ conversation_history[n - 1].role = "user"

\* a step keeps every message the history holds, in its place, and adds at
\* most two (the user message and, in a turn that ends within the step
\* that began it, nothing more)
HistoryGrows ==
    /\ Len(conversation_history') >= Len(conversation_history)
    /\ SubSeq(conversation_history', 1, Len(conversation_history))
          = conversation_history
    /\ turns' = turns => Len(conversation_history') <= Len(conversation_history) + 1

\* C33: the history is append-only and well-formed: no step changes or
\* removes a message; every turn appends one user message, before its
\* first generation request, whose prompt ends with it, and at most one
\* assistant message; every assistant message stands right after the user
\* message of its turn.
C33_HistoryAppendOnly == []HistoryWellFormed /\ [][HistoryGrows]_vars

\* after two turns: the first appended no assistant message, the second
\* appended one
C33_Witness ==
    /\ TurnDone /\ turns = 2
    /\ Len(conversation_history) = 3
    /\ conversation_history[1].role = "user"
    /\ conversation_history[2].role = "user"
    /\ conversation_history[3].role = "assistant"
    /\ h0 = <<conversation_history[1]>>

----------------------------------------------------------------------------
\* How often a chunk of the Stream reaches the caller (Spec).

\* the texts of the chunks the caller got that carry text of the stream
DeliveredReply ==
    LET Carries(c) == c.k \in {"content", "collected"}
        got == SelectSeq(out, Carries)
    IN  [n \in 1..Len(got) |-> got[n].v]

\* the texts of the content chunks, the empty ones left out, among the
\* items the loop of run has taken from the stream
ReceivedContent ==
    LET taken == SubSeq(response.items, 1, pos)
        Content(c) == c.k = "content" /\ c.v # <<>>
        got == SelectSeq(taken, Content)
    IN  [n \in 1..Len(got) |-> got[n].v]

\* C34: in a Stream turn the chunks the caller got with text of the stream
\* are, one for one and in order, content chunks received from the stream:
\* none is delivered a second time, also after the stream raised.
C34_DeliveredAtMostOnce ==
    (turns > 0 /\ response.type = "stream") =>
        /\ Len(DeliveredReply) <= Len(ReceivedContent)
        /\ \A n \in 1..Len(DeliveredReply) : DeliveredReply[n] = ReceivedContent[n]

\* the stream raised after the chunk "a": the caller got "a" and then "a"
\* again, as the collected text
C34_Witness ==
    /\ TurnDone /\ StreamRaised
    /\ ReceivedContent = << <<"a">> >>
    /\ DeliveredReply = << <<"a">>, <<"a">> >>

----------------------------------------------------------------------------
\* Inline detection in OpenaiProvider.generate_response with stream=True
\* (MethodSpec).

\* the deltas the adapter has read when it builds the ToolCalls: the first
\* one and those after it up to the first whose finish_reason is
\* "tool_calls", or all of them
ReceivedDeltas(events) ==
    LET fins == {n \in 2..Len(events) : events[n].fin}
    IN  IF fins = {} THEN events
        ELSE SubSeq(events, 1, CHOOSE n \in fins : \A m \in fins : n <= m)

RECURSIVE Accumulated(_, _, _)
\* the call at position j as the deltas build it: the id and the name of
\* the first delta that carries one, and the pieces of the arguments of
\* all deltas, in order
Accumulated(deltas, j, acc) ==
    IF deltas = <<>> THEN acc
    ELSE LET e == Head(deltas)
             next == IF e.k = "tool" /\ Len(e.calls) >= j
                     THEN ToolCall(IF acc.id = "" THEN e.calls[j].id ELSE acc.id,
                                   IF acc.name = "" THEN e.calls[j].name ELSE acc.name,
                                   acc.arguments \o e.calls[j].arguments)
                     ELSE acc
         IN  Accumulated(Tail(deltas), j, next)

\* the content deltas with text among the events, as items of a Stream
ContentItems(events) ==
    LET Content(e) == e.k = "content" /\ e.v # <<>>
        got == SelectSeq(events, Content)
    IN  [n \in 1..Len(got) |-> ContentItem(got[n].v)]

\* C31: OpenaiProvider.generate_response with stream=True, on a reply read
\* without failure: when the first delta holds tool calls, ToolCalls is
\* returned and each of its calls has the name and the whole arguments the
\* deltas read have built up; when the first delta is a content delta, a
\* Stream is returned whose items are the content of the first delta and
\* of every later content delta, each once and in order.
C31_InlineDetection ==
    ReturnedFrom("generate_response") =>
        LET events == method_call.input.events
            made == method_call.output
            read == ReceivedDeltas(events)
        IN  (events # <<>> /\ \A n \in 1..Len(events) : events[n].k # "raise") =>
                /\ events[1].k = "tool" =>
                      /\ made.type = "tool_calls"
                      /\ Len(made.calls) = Len(events[1].calls)
                      /\ \A j \in 1..Len(made.calls) :
                            LET whole == Accumulated(read, j, ToolCall("", "", <<>>))
                            IN  /\ made.calls[j].name = whole.name
                                /\ made.calls[j].arguments = whole.arguments
                /\ events[1].k = "content" =>
                      /\ made.type = "stream"
                      /\ made.items = ContentItems(events)

\* the reply is a tool call in two deltas, the name with the first piece
\* of the arguments and the last piece: the ToolCalls returned hold the
\* last piece alone, under no name
C31_Witness ==
    /\ ReturnedFrom("generate_response")
    /\ method_call.input.events = <<HeadDelta, LastPieceDelta>>
    /\ method_call.output.type = "tool_calls"
    /\ method_call.output.calls = <<ToolCall("call_0", "", <<"}">>)>>

----------------------------------------------------------------------------
\* A caller that stops consuming (CancelSpec).

\* the caller stopped consuming the output of this turn before its end
Abandoned == log # <<>> /\ log[Len(log)].e = "close"

\* the yield at which the caller stopped
AbandonedAt == log[Len(log)].k

\* C35: once the caller has stopped consuming before the end of the turn,
\* the history is the history the turn began with plus the user message
\* of the turn, with no assistant message; and nothing more happens in the
\* turn: no tool call is executed, no result recorded, no request sent, no
\* chunk emitted; the next step, if any, is the next call of run.
C35_AbandonedTurn ==
    /\ [](Abandoned =>
            /\ pc = "idle"
            /\ conversation_history = Append(h0, Message("user", prompt)))
    /\ [][Abandoned => turns' = turns + 1]_vars

\* the caller stopped in the tool phase, after the result of the first of
\* two calls: the first call was executed, the second was not
C35_Witness ==
    /\ Abandoned /\ AbandonedAt \in {"tool_result", "separator"}
    /\ Len(tool_calls) = 2
    /\ Events("execute", 1) # {} /\ Events("execute", 2) = {}
    /\ Len(conversation_history) = Len(h0) + 1

\* the caller stopped in a Stream after a chunk, and in the summary after
\* a word
C35_WitnessStream ==
    /\ Abandoned /\ AbandonedAt = "content" /\ full_response # <<>>
    /\ pos < Len(response.items)
C35_WitnessSummary ==
    /\ Abandoned /\ AbandonedAt = "summary_word" /\ words # <<>>

====
